---- MODULE Spec2Model ----
(***************************************************************************)
(* A model of the controller-communication layer of homebridge-vantage:    *)
(* the command channel of VantageInfusion (port 3001), its line decoding   *)
(* and event dispatch, its outbound operations, the discovery runs         *)
(* (port 2001), and the parser of the project backup.                      *)
(*                                                                         *)
(* The runtime's sockets and event emitters are modelled by the behaviour  *)
(* Node documents for them: a listener added while an event is being       *)
(* emitted is not called for that emit; the listener given to              *)
(* socket.connect(port, host, cb) is a once-listener; a destroyed socket   *)
(* emits 'close' exactly once; write() on a destroyed socket is dropped,   *)
(* write() on a connecting socket is buffered.                             *)
(***************************************************************************)
EXTENDS Integers, Sequences, FiniteSets, TLC

VARIABLES
    config,            \* VantageInfusionConfig: [username, password]
    sockState,         \* commandSocket: "connecting" | "connected" | "destroyed" | "closed"
    connectListener,   \* the once-'connect' listener of setupCommandSocket is still registered
    closeListeners,    \* number of 'close' listeners added by setupReconnection
    reconnectTimers,   \* number of pending 5 s reconnect timers
    closeEvents,       \* number of 'close' events the command socket has emitted
    writes,            \* every commandSocket.write call: [line, at, by]
    calls,             \* number of outbound operations called so far
    lastCall,          \* the outbound operation called last: [op, args]
    inbound,           \* bytes the controller has sent that no 'data' event has delivered yet
    rxAll,             \* every byte delivered by 'data' events so far, in order
    chunkLog,          \* one entry per 'data' event: [chunk, lines], lines = what each line did
    uncaught,          \* an exception has left a listener: the process is gone
    disc,              \* the discovery runs: disc[r] is the state of the r-th discover() call
    backup,            \* the backup text of a discovery run and what the parser made of it
    platform,          \* the construction of VantagePlatform: [stage, config, opened]
    accessories,       \* platform.accessories: [UUID, device] of every accessory it tracks
    registered,        \* the accessories of every api.registerPlatformAccessories call
    deviceMap,         \* platform.deviceMap: the handler stored under a VID
    setpoints,         \* the setpoints the controller reported last for a thermostat, by VID
    completions        \* number of 'discoveryComplete' events the platform has handled

cmdVars == <<config, sockState, connectListener, closeListeners, reconnectTimers,
             closeEvents, writes, calls, lastCall>>

dataVars == <<inbound, rxAll, chunkLog>>

accVars == <<accessories, registered, deviceMap, setpoints, completions>>

vars == <<cmdVars, dataVars, uncaught, disc, backup, platform, accVars>>

-----------------------------------------------------------------------------
(* Bounds and input sets *)

\* outbound operations called in one behaviour
MaxCalls == 2

Vids == {"7"}
Levels == {0, 75}
Modes == 0..4
Temps == {60, 65, 70, 75, 80}
Heatings == {65}
Coolings == {75}

\* 'data' events of one behaviour
MaxChunks == 2

\* status lines the controller sends
LineLoad == <<"S", ":", "L", "O", "A", "D", " ", "7", " ", "7", "5", "\n">>
LineGetLoad == <<"R", ":", "G", "E", "T", "L", "O", "A", "D", " ", "1", "2", " ", "0", "\n">>
LineBlind == <<"S", ":", "B", "L", "I", "N", "D", " ", "7", " ", "1", "0", "0", "\n">>
LineGetBlind == <<"R", ":", "G", "E", "T", "B", "L", "I", "N", "D", " ", "7", " ", "4", "0", "\n">>
LineTemp == <<"S", ":", "T", "E", "M", "P", " ", "7", " ", "2", "1", "\n">>
LineInvoke ==
    <<"R", ":", "I", "N", "V", "O", "K", "E", " ", "7", " ", "2", "1", ".", "5", " ",
      "T", "h", "e", "r", "m", "o", "s", "t", "a", "t", ".", "G", "e", "t", "I", "n",
      "d", "o", "o", "r", "T", "e", "m", "p", "e", "r", "a", "t", "u", "r", "e", "\n">>
LineInvokeOther ==
    <<"R", ":", "I", "N", "V", "O", "K", "E", " ", "7", " ", "1", " ",
      "L", "o", "a", "d", ".", "R", "a", "m", "p", "\n">>
LineThermop == <<"S", ":", "T", "H", "E", "R", "M", "O", "P", " ", "7", " ", "H", "E", "A", "T", "\n">>
LineGetThermop ==
    <<"R", ":", "G", "E", "T", "T", "H", "E", "R", "M", "O", "P", " ", "7", " ",
      "A", "U", "T", "O", "\n">>
LineThermTemp ==
    <<"R", ":", "T", "H", "E", "R", "M", "T", "E", "M", "P", " ", "7", " ",
      "C", "O", "O", "L", " ", "6", "8", ".", "5", "\n">>
LineThermopNoMode == <<"S", ":", "T", "H", "E", "R", "M", "O", "P", " ", "7", "\n">>
LineLoadNotNumeric == <<"S", ":", "L", "O", "A", "D", " ", "7", " ", "a", "b", "c", "\n">>
LineUnknown == <<"S", ":", "L", "E", "D", " ", "7", " ", "1", "\n">>
LineLowerCase == <<"s", ":", "l", "o", "a", "d", " ", "7", " ", "7", "5", "\n">>
LineEmpty == <<"\n">>
LineLoadCr == <<"S", ":", "L", "O", "A", "D", " ", "7", " ", "7", "5", "\r", "\n">>
LineThermopHeatOff ==
    <<"S", ":", "T", "H", "E", "R", "M", "O", "P", " ", "7", " ",
      "H", "E", "A", "T", "O", "F", "F", "\n">>
LineGetThermopCoolHeat ==
    <<"R", ":", "G", "E", "T", "T", "H", "E", "R", "M", "O", "P", " ", "7", " ",
      "C", "O", "O", "L", "H", "E", "A", "T", "\n">>
LineThermTempNotNumeric ==
    <<"R", ":", "T", "H", "E", "R", "M", "T", "E", "M", "P", " ", "7", " ",
      "H", "E", "A", "T", " ", "x", "\n">>

Lines ==
    { LineLoad, LineGetLoad, LineBlind, LineGetBlind, LineTemp, LineInvoke,
      LineInvokeOther, LineThermop, LineGetThermop, LineThermTemp, LineThermopNoMode,
      LineLoadNotNumeric, LineUnknown, LineLowerCase, LineEmpty, LineLoadCr,
      LineThermopHeatOff, LineGetThermopCoolHeat, LineThermTempNotNumeric }

\* streams of newline-terminated lines: each line alone, and each followed by
\* a load status line
Streams == Lines \cup { l \o LineLoad : l \in Lines } \cup { LineLoad \o LineThermop \o LineBlind }

\* calls of discover() in one behaviour
MaxRuns == 2
Runs == 1..MaxRuns

\* backup files the controller may hold, named by the devices the parser finds in them
Files == {"F0", "F2"}

\* elements of one backup text
MaxObjects == 2

\* An element of the backup text, by what the parser reads of it; a field is
\* << >> where the text has none (every text is a sequence of strings):
\*   tag         the tag of the element
\*   vidAttr     the value of its VID attribute
\*   vidElem     the text of its <VID> child
\*   number      the text of its <Number> child
\*   objectType  the text of its <ObjectType> child
\*   name        the text of its <Name> child
\*   area        the text of its <Area> child
Element(tag, vidAttr, vidElem, number, objectType, name, area) ==
    [ tag |-> tag, vidAttr |-> vidAttr, vidElem |-> vidElem, number |-> number,
      objectType |-> objectType, name |-> name, area |-> area ]

\* the content of a child that holds no text but an element, <toString>1</toString>:
\* XMLParser.parse makes of it an object whose property toString is the number 1
NotText == <<"<toString>", "1", "</toString>">>

AreaKitchen ==
    Element("Area", <<"1", "0">>, << >>, << >>, <<"Area">>, <<"Kitchen">>, << >>)
AreaHall ==
    Element("Area", <<"2", "0">>, << >>, << >>, << >>, <<"Hall">>, << >>)
LoadLamp ==
    Element("Load", <<"5", "5">>, << >>, << >>, << >>, <<"Lamp">>, <<"1", "0">>)
LoadSpot ==
    Element("Load", <<"5", "6">>, << >>, << >>, << >>, <<"Spot">>, <<"3", "0">>)
LoadNoName ==
    Element("Load", <<"5", "7">>, << >>, << >>, << >>, << >>, <<"2", "0">>)
ThermostatClimate ==
    Element("Thermostat", << >>, <<"7">>, << >>, << >>, <<"Climate">>, << >>)
BlindShade ==
    Element("Blind", <<"3", "0", "0">>, << >>, << >>, << >>, <<"Shade">>, <<"2", "0">>)
RelayBlindDoor ==
    Element("RelayBlind", << >>, << >>, <<"8", "0">>, << >>, <<"Door">>, <<"1", "0">>)
LoadOddVid ==
    Element("Load", << >>, NotText, << >>, << >>, <<"Odd">>, << >>)

Elements ==
    { AreaKitchen, AreaHall, LoadLamp, LoadSpot, LoadNoName, ThermostatClimate,
      BlindShade, RelayBlindDoor, LoadOddVid }

\* A backup text: its elements in order, and
\*   section    the container the elements are in: <Objects>, <Project>, or none
\*   wrapped    each element is the child of an <Object> element of its own
\*   malformed  the text of the section is XML that XMLParser.parse throws on
Sections == {"Objects", "Project", "none"}

Documents ==
    { [section |-> sec, wrapped |-> w, malformed |-> m, objects |-> objs] :
        sec \in Sections, w \in BOOLEAN, m \in BOOLEAN,
        objs \in UNION { [1..n -> Elements] : n \in 0..MaxObjects } }

\* config.omit and config.range as ConfigValidator.validate lets them through
Omits == { << >>, <<"5", "5">>, <<"5", "6", ",", " ", "3", "0", "0">> }
Ranges == { << >>, <<"5", "0", ",", "1", "0", "0">> }

\* the credential pairs ConfigValidator.validate lets through
Configs ==
    { [username |-> "", password |-> ""],
      [username |-> "admin", password |-> "secret"] }

\* config.ipaddress as the user may write it; << >> is a configuration without one
AddressController == <<"1", "0", ".", "0", ".", "0", ".", "5">>
AddressThreeParts == <<"1", "0", ".", "0", ".", "0">>
AddressOctet256 == <<"1", "0", ".", "0", ".", "0", ".", "2", "5", "6">>
Addresses == { << >>, AddressController, AddressThreeParts, AddressOctet256 }

\* config.omit and config.range as the user may write them
OmitNotNumeric == <<"5", "5", ",", "x">>
OmitInputs == Omits \cup { OmitNotNumeric }
RangeOneNumber == <<"5", "0">>
RangeReversed == <<"1", "0", "0", ",", "5", "0">>
RangeNotNumeric == <<"a", ",", "1", "0", "0">>
RangeInputs == Ranges \cup { RangeOneNumber, RangeReversed, RangeNotNumeric }

\* the configurations Homebridge may hand to the platform
PlatformConfigs ==
    [ ipaddress : Addresses, username : {"", "admin"}, password : {"", "secret"},
      omit : OmitInputs, range : RangeInputs ]

-----------------------------------------------------------------------------
(* The command socket *)

\* a connect callback that subscribes before it logs in
ConnectCallback_StatusonFirst(log) ==
    LET subscribed ==
            Append(log, [line |-> <<"STATUSON">>, at |-> "connected", by |-> "connect"])
    IN  IF config.username # "" /\ config.password # ""
        THEN Append(subscribed, [line |-> <<"LOGIN", config.username, config.password>>,
                                 at |-> "connected", by |-> "connect"])
        ELSE subscribed

\* the connect callback of setupCommandSocket
ConnectCallback(log) ==
    LET afterLogin ==
            IF config.username # "" /\ config.password # ""
            THEN Append(log, [line |-> <<"LOGIN", config.username, config.password>>,
                              at |-> "connected", by |-> "connect"])
            ELSE log
    IN  Append(afterLogin, [line |-> <<"STATUSON">>, at |-> "connected", by |-> "connect"])

\* 'connect' on the command socket: the once-listener, when still there, runs once
Connect ==
    /\ ~uncaught
    /\ sockState = "connecting"
    /\ sockState' = "connected"
    /\ writes' = IF connectListener THEN ConnectCallback(writes) ELSE writes
    /\ connectListener' = FALSE
    /\ UNCHANGED <<config, closeListeners, reconnectTimers, closeEvents, calls,
                   lastCall>>
    /\ UNCHANGED <<dataVars, uncaught, disc, backup, platform, accVars>>

\* 'error' on the command socket: handleSocketError logs; the socket is destroyed
\* and its 'close' follows
SocketError ==
    /\ ~uncaught
    /\ sockState \in {"connecting", "connected"}
    /\ sockState' = "destroyed"
    /\ UNCHANGED <<config, connectListener, closeListeners, reconnectTimers,
                   closeEvents, writes, calls, lastCall>>
    /\ UNCHANGED <<dataVars, uncaught, disc, backup, platform, accVars>>

\* setupReconnection: adds one more 'close' listener, schedules nothing itself
setupReconnection(n) == n + 1

\* 'close' on the command socket, after an error or when the controller closes.
\* The listeners registered before this emit run: the one of setupCommandSocket
\* calls setupReconnection, each one added by an earlier setupReconnection
\* starts a 5 s timer.
Close ==
    /\ ~uncaught
    /\ sockState \in {"connected", "destroyed"}
    /\ sockState' = "closed"
    /\ closeEvents' = closeEvents + 1
    /\ reconnectTimers' = reconnectTimers + closeListeners
    /\ closeListeners' = setupReconnection(closeListeners)
    /\ inbound' = << >>
    /\ UNCHANGED <<config, connectListener, writes, calls, lastCall>>
    /\ UNCHANGED <<rxAll, chunkLog, uncaught, disc, backup, platform, accVars>>

-----------------------------------------------------------------------------
(* Outbound operations *)

\* a mode map that falls back to AUTO
ModeMap_AutoDefault(mode) ==
    CASE mode = 0 -> "OFF"
      [] mode = 1 -> "HEAT"
      [] mode = 2 -> "COOL"
      [] OTHER    -> "AUTO"

ModeMap(mode) ==
    CASE mode = 0 -> "OFF"
      [] mode = 1 -> "HEAT"
      [] mode = 2 -> "COOL"
      [] mode = 3 -> "AUTO"
      [] OTHER    -> "OFF"

\* the log after the lines of one operation have been written, in order
WriteAll(log, lines, state) ==
    [i \in 1..(Len(log) + Len(lines)) |->
        IF i <= Len(log) THEN log[i]
        ELSE [line |-> lines[i - Len(log)], at |-> state, by |-> "api"]]

\* one call of an outbound operation: each of its lines is written at once
Send(op, args, lines) ==
    /\ ~uncaught
    /\ calls < MaxCalls
    /\ calls' = calls + 1
    /\ lastCall' = [op |-> op, args |-> args]
    /\ writes' = WriteAll(writes, lines, sockState)
    /\ UNCHANGED <<config, sockState, connectListener, closeListeners,
                   reconnectTimers, closeEvents>>

\* an outbound operation called from outside the accessories
Outbound(op, args, lines) ==
    /\ Send(op, args, lines)
    /\ UNCHANGED <<dataVars, uncaught, disc, backup, platform, accVars>>

getLoadStatus ==
    \E vid \in Vids : Outbound("getLoadStatus", <<vid>>, << <<"GETLOAD", vid>> >>)

setLoadLevel ==
    \E vid \in Vids, level \in Levels :
        Outbound("setLoadLevel", <<vid, level>>,
                 << <<"INVOKE", vid, "Load.Ramp", "6", ToString(1), ToString(level)>> >>)

setBlindPosition ==
    \E vid \in Vids, position \in Levels :
        Outbound("setBlindPosition", <<vid, position>>,
                 << <<"BLIND", vid, "POS", ToString(position)>> >>)

getBlindPosition ==
    \E vid \in Vids : Outbound("getBlindPosition", <<vid>>, << <<"GETBLIND", vid>> >>)

getThermostatState ==
    \E vid \in Vids :
        Outbound("getThermostatState", <<vid>>,
                 << <<"INVOKE", vid, "Thermostat.GetIndoorTemperature">>,
                    <<"GETTHERMOP", vid>>,
                    <<"GETTHERMTEMP", vid, "HEAT">>,
                    <<"GETTHERMTEMP", vid, "COOL">> >>)

setThermostatMode ==
    \E vid \in Vids, mode \in Modes :
        Outbound("setThermostatMode", <<vid, mode>>, << <<"THERMOP", vid, ModeMap(mode)>> >>)

\* a setpoint update that also writes when the value is on a threshold
ThermostatTemperatureLines_Inclusive(vid, value, mode, heating, cooling) ==
    IF mode = 1 THEN << <<"THERMTEMP", vid, "HEAT", ToString(value)>> >>
    ELSE IF mode = 2 THEN << <<"THERMTEMP", vid, "COOL", ToString(value)>> >>
    ELSE IF mode = 3 THEN
        IF value >= cooling THEN << <<"THERMTEMP", vid, "COOL", ToString(value)>> >>
        ELSE IF value <= heating THEN << <<"THERMTEMP", vid, "HEAT", ToString(value)>> >>
        ELSE << >>
    ELSE << >>

\* a setpoint update that writes a HEAT setpoint in every mode but Cool and Auto
ThermostatTemperatureLines_HeatUnlessCool(vid, value, mode, heating, cooling) ==
    IF mode = 2 THEN << <<"THERMTEMP", vid, "COOL", ToString(value)>> >>
    ELSE IF mode = 3 THEN
        IF value > cooling THEN << <<"THERMTEMP", vid, "COOL", ToString(value)>> >>
        ELSE IF value < heating THEN << <<"THERMTEMP", vid, "HEAT", ToString(value)>> >>
        ELSE << >>
    ELSE << <<"THERMTEMP", vid, "HEAT", ToString(value)>> >>

\* the writes of setThermostatTemperature, in order
ThermostatTemperatureLines(vid, value, mode, heating, cooling) ==
    IF mode = 1 THEN << <<"THERMTEMP", vid, "HEAT", ToString(value)>> >>
    ELSE IF mode = 2 THEN << <<"THERMTEMP", vid, "COOL", ToString(value)>> >>
    ELSE IF mode = 3 THEN
        IF value > cooling THEN << <<"THERMTEMP", vid, "COOL", ToString(value)>> >>
        ELSE IF value < heating THEN << <<"THERMTEMP", vid, "HEAT", ToString(value)>> >>
        ELSE << >>
    ELSE << >>

setThermostatTemperature ==
    \E vid \in Vids, value \in Temps, mode \in Modes,
       heating \in Heatings, cooling \in Coolings :
        Outbound("setThermostatTemperature", <<vid, value, mode, heating, cooling>>,
                 ThermostatTemperatureLines(vid, value, mode, heating, cooling))

-----------------------------------------------------------------------------
(* Strings of the line protocol, as sequences of characters *)

S_LOAD == <<"S", ":", "L", "O", "A", "D">>
R_GETLOAD == <<"R", ":", "G", "E", "T", "L", "O", "A", "D">>
S_BLIND == <<"S", ":", "B", "L", "I", "N", "D">>
R_GETBLIND == <<"R", ":", "G", "E", "T", "B", "L", "I", "N", "D">>
S_TEMP == <<"S", ":", "T", "E", "M", "P">>
R_INVOKE == <<"R", ":", "I", "N", "V", "O", "K", "E">>
S_THERMOP == <<"S", ":", "T", "H", "E", "R", "M", "O", "P">>
R_GETTHERMOP == <<"R", ":", "G", "E", "T", "T", "H", "E", "R", "M", "O", "P">>
R_THERMTEMP == <<"R", ":", "T", "H", "E", "R", "M", "T", "E", "M", "P">>
GetIndoorTemperature ==
    <<"T", "h", "e", "r", "m", "o", "s", "t", "a", "t", ".", "G", "e", "t", "I", "n",
      "d", "o", "o", "r", "T", "e", "m", "p", "e", "r", "a", "t", "u", "r", "e">>
OFF == <<"O", "F", "F">>
HEAT == <<"H", "E", "A", "T">>
COOL == <<"C", "O", "O", "L">>

\* the value of a missing array element, and the filler of an event field not used
Undefined == <<"undefined">>
NoStr == <<"none">>

\* numbers: m * 10^(-e), or NaN; NoNum fills an event field not used
Num(m, e) == [k |-> "num", m |-> m, e |-> e]
NaN == [k |-> "NaN", m |-> 0, e |-> 0]
NoNum == [k |-> "none", m |-> 0, e |-> 0]

DigitChars == <<"0", "1", "2", "3", "4", "5", "6", "7", "8", "9">>
IsDigit(c) == \E i \in 1..10 : DigitChars[i] = c
DigitVal(c) == (CHOOSE i \in 1..10 : DigitChars[i] = c) - 1
IsSpace(c) == c \in {" ", "\t", "\r", "\n"}

RECURSIVE TrimLeft(_)
TrimLeft(s) == IF s # << >> /\ IsSpace(Head(s)) THEN TrimLeft(Tail(s)) ELSE s

\* the number of leading digits of s
RECURSIVE DigitsPrefix(_)
DigitsPrefix(s) == IF s # << >> /\ IsDigit(Head(s)) THEN 1 + DigitsPrefix(Tail(s)) ELSE 0

\* the value of the first n characters of s, all digits
RECURSIVE DigitsValue(_, _)
DigitsValue(s, n) == IF n = 0 THEN 0 ELSE 10 * DigitsValue(s, n - 1) + DigitVal(s[n])

\* a non-empty string of decimal digits
IsInteger(s) == s # << >> /\ \A k \in DOMAIN s : IsDigit(s[k])

\* the decimal digits of a natural number: String(n)
RECURSIVE DigitsOf(_)
DigitsOf(n) ==
    IF n < 10 THEN <<DigitChars[n + 1]>>
    ELSE Append(DigitsOf(n \div 10), DigitChars[(n % 10) + 1])

RECURSIVE TrimRight(_)
TrimRight(s) ==
    IF s # << >> /\ IsSpace(s[Len(s)]) THEN TrimRight(SubSeq(s, 1, Len(s) - 1)) ELSE s

\* String.prototype.trim
Trim(s) == TrimRight(TrimLeft(s))

RECURSIVE Pow10(_)
Pow10(n) == IF n = 0 THEN 1 ELSE 10 * Pow10(n - 1)

\* m * 10^(-e) without trailing zeros in the fraction
RECURSIVE Normal(_, _)
Normal(m, e) == IF e > 0 /\ m % 10 = 0 THEN Normal(m \div 10, e - 1) ELSE Num(m, e)

\* parseInt(s), radix 10 (no input of the model has a 0x prefix): leading white
\* space, an optional sign, then the longest run of digits; NaN when there is none
parseInt(s) ==
    IF s = Undefined THEN NaN
    ELSE LET t == TrimLeft(s)
             signed == t # << >> /\ Head(t) \in {"-", "+"}
             body == IF signed THEN Tail(t) ELSE t
             n == DigitsPrefix(body)
             v == DigitsValue(body, n)
         IN  IF n = 0 THEN NaN
             ELSE Num(IF signed /\ Head(t) = "-" THEN -v ELSE v, 0)

\* parseFloat(s) for decimal literals without exponent: leading white space, an
\* optional sign, digits, an optional point and digits; NaN when there is no digit
parseFloat(s) ==
    IF s = Undefined THEN NaN
    ELSE LET t == TrimLeft(s)
             signed == t # << >> /\ Head(t) \in {"-", "+"}
             body == IF signed THEN Tail(t) ELSE t
             n == DigitsPrefix(body)
             rest == SubSeq(body, n + 1, Len(body))
             point == rest # << >> /\ Head(rest) = "."
             frac == IF point THEN Tail(rest) ELSE << >>
             f == DigitsPrefix(frac)
             v == DigitsValue(body, n) * Pow10(f) + DigitsValue(frac, f)
         IN  IF n + f = 0 THEN NaN
             ELSE Normal(IF signed /\ Head(t) = "-" THEN -v ELSE v, f)

\* String.prototype.includes
Includes(s, sub) ==
    \E i \in 1..(Len(s) - Len(sub) + 1) : SubSeq(s, i, i + Len(sub) - 1) = sub

\* String.prototype.split(sep) for a one-character separator: the pieces between
\* the separators, empty pieces included; a string without separator is one piece
RECURSIVE Split(_, _)
Split(s, sep) ==
    IF \E i \in 1..Len(s) : s[i] = sep
    THEN LET i == CHOOSE j \in 1..Len(s) :
                      /\ s[j] = sep
                      /\ \A h \in 1..(j - 1) : s[h] # sep
         IN  <<SubSeq(s, 1, i - 1)>> \o Split(SubSeq(s, i + 1, Len(s)), sep)
    ELSE <<s>>

-----------------------------------------------------------------------------
(* Decoding and dispatch of status lines *)

\* an indexing that is off by one element
At_OffByOne(parts, i) == IF i + 2 <= Len(parts) THEN parts[i + 2] ELSE Undefined

\* parts[i] of a JavaScript array (0-based); undefined beyond its end
At(parts, i) == IF i + 1 <= Len(parts) THEN parts[i + 1] ELSE Undefined

Event(name, a, n, n2) == [name |-> name, a |-> a, n |-> n, n2 |-> n2]

Emits(parts, events) == [parts |-> parts, events |-> events, threw |-> FALSE]
Throws(parts) == [parts |-> parts, events |-> << >>, threw |-> TRUE]

LowerChars ==
    <<"a", "b", "c", "d", "e", "f", "g", "h", "i", "j", "k", "l", "m",
      "n", "o", "p", "q", "r", "s", "t", "u", "v", "w", "x", "y", "z">>
UpperChars ==
    <<"A", "B", "C", "D", "E", "F", "G", "H", "I", "J", "K", "L", "M",
      "N", "O", "P", "Q", "R", "S", "T", "U", "V", "W", "X", "Y", "Z">>
ToUpperCase(s) ==
    [i \in DOMAIN s |->
        IF \E j \in 1..26 : LowerChars[j] = s[i]
        THEN UpperChars[CHOOSE j \in 1..26 : LowerChars[j] = s[i]]
        ELSE s[i]]

\* a verb matched without regard to case
CaseIs_IgnoringCase(command, verbs) == ToUpperCase(command) \in verbs

\* a case label of the switch: strict equality with one of the verbs
CaseIs(command, verbs) == command \in verbs

\* a decoding of the mode token that looks for COOL before HEAT and OFF
modeVal_CoolFirst(token) ==
    IF Includes(token, COOL) THEN 2
    ELSE IF Includes(token, HEAT) THEN 1
    ELSE IF Includes(token, OFF) THEN 0
    ELSE 3

\* modeVal of the thermostat case: 0 off, 1 heat, 2 cool, 3 auto
modeVal(token) ==
    IF Includes(token, OFF) THEN 0
    ELSE IF Includes(token, HEAT) THEN 1
    ELSE IF Includes(token, COOL) THEN 2
    ELSE 3

\* processCommandResponse: command = parts[0], args[i] = parts[i + 1]
processCommandResponse(parts) ==
    LET command == At(parts, 0)
        arg0 == At(parts, 1)
        arg1 == At(parts, 2)
        arg2 == At(parts, 3)
    IN  CASE CaseIs(command, {S_BLIND, R_GETBLIND}) ->
                Emits(parts, <<Event("blindStatusChange", arg0, parseInt(arg1), NoNum)>>)
          [] CaseIs(command, {S_LOAD, R_GETLOAD}) ->
                Emits(parts, <<Event("loadStatusChange", arg0, parseInt(arg1), NoNum)>>)
          [] CaseIs(command, {S_TEMP}) ->
                Emits(parts, <<Event("thermostatDidChange", arg1, NoNum, NoNum)>>)
          [] CaseIs(command, {R_INVOKE}) ->
                IF arg2 # Undefined /\ Includes(arg2, GetIndoorTemperature)
                THEN Emits(parts, <<Event("thermostatIndoorTemperatureChange",
                                          arg0, parseFloat(arg1), NoNum)>>)
                ELSE Emits(parts, << >>)
          [] CaseIs(command, {S_THERMOP, R_GETTHERMOP, R_THERMTEMP}) ->
                IF arg1 = Undefined THEN Throws(parts)
                ELSE Emits(parts, <<Event("thermostatIndoorModeChange", arg0,
                                          Num(modeVal(arg1), 0),
                                          IF command = R_THERMTEMP
                                          THEN parseFloat(arg2)
                                          ELSE Num(-1, 0))>>)
          [] OTHER -> Emits(parts, << >>)

\* the loop of handleCommandData over lines[i..]: an exception ends it
RECURSIVE ProcessLines(_, _)
ProcessLines(lines, i) ==
    IF i > Len(lines) THEN << >>
    ELSE LET parts == Split(lines[i], " ")
         IN  IF Len(parts) = 0 THEN ProcessLines(lines, i + 1)
             ELSE LET r == processCommandResponse(parts)
                  IN  IF r.threw THEN <<r>> ELSE <<r>> \o ProcessLines(lines, i + 1)

\* handleCommandData: what each line of the chunk did, in order
handleCommandData(data) == ProcessLines(Split(data, "\n"), 1)

\* the events a sequence of line results raised, in order
RECURSIVE EventsOf(_)
EventsOf(results) ==
    IF results = << >> THEN << >> ELSE Head(results).events \o EventsOf(Tail(results))

\* the controller's transmission on this connection
ControllerSends ==
    /\ ~uncaught
    /\ sockState = "connected"
    /\ inbound = << >> /\ rxAll = << >>
    /\ inbound' \in Streams
    /\ UNCHANGED <<cmdVars, rxAll, chunkLog, uncaught, disc, backup, platform, accVars>>

\* 'data' on the command socket: the next n bytes arrive as one chunk
Data ==
    /\ ~uncaught
    /\ sockState = "connected"
    /\ Len(chunkLog) < MaxChunks
    /\ \E n \in 1..Len(inbound) :
          LET chunk == SubSeq(inbound, 1, n)
              done == handleCommandData(chunk)
          IN  /\ inbound' = SubSeq(inbound, n + 1, Len(inbound))
              /\ rxAll' = rxAll \o chunk
              /\ chunkLog' = Append(chunkLog, [chunk |-> chunk, lines |-> done])
              /\ uncaught' = (done # << >> /\ done[Len(done)].threw)
    /\ UNCHANGED <<cmdVars, disc, backup, platform, accVars>>

-----------------------------------------------------------------------------
(* Discovery runs *)

\* The responses of the controller as sequences of fragments, a fragment being
\* a piece of text no chunk boundary of the model falls into:
\*   "<ILogin>"   a login response up to its return value
\*   "true", "false"   the return value of a login response
\*   "</ILogin>"  the rest of a login response
\*   "<IBackup>"  a backup response up to the base64 text of its File element
\*   "F0", "F2"   the base64 text of a backup file
\*   "</IBackup>" the rest of a backup response
\*   "<junk"      text that is no well-formed XML
\*   "\n"         a newline behind a response, as there is one behind every request
LoginResponses ==
    { <<"<ILogin>", "true", "</ILogin>">>, <<"<ILogin>", "false", "</ILogin>">> }

BackupResponses ==
    { <<"<IBackup>", "F0", "</IBackup>">>,
      <<"<IBackup>", "F2", "</IBackup>", "\n">>,
      <<"<IBackup>", "</IBackup>">>,                 \* a response with no File element
      <<"<IBackup>", "F2">>,                         \* a response that is never finished
      <<"<junk", "</IBackup>">> }                    \* a response that does not parse

\* the devices processBackupFile appends for a backup file
DevicesOf(file) ==
    CASE file = "F2" -> <<"55", "56">>
      [] OTHER       -> << >>

\* a run that discover() has not started
NoRun ==
    [ phase     |-> "idle",   \* idle | connecting | open | ended | destroyed | closed
      timer     |-> FALSE,    \* connectionTimeout is pending
      buffer    |-> << >>,    \* the text accumulated by the 'data' listener
      inflight  |-> << >>,    \* what the controller has sent and no 'data' event delivered
      answered  |-> 0,        \* requests the controller has responded to
      sent      |-> << >>,    \* the requests written to configSocket
      devices   |-> << >>,    \* the devices array of the run
      completes |-> << >>,    \* the device lists of the discoveryComplete events of the run
      errored   |-> FALSE,    \* the socket of the run has emitted 'error'
      unsaved   |-> FALSE,    \* fs.writeFileSync has thrown in the run
      resolved  |-> FALSE,    \* the promise of the run is resolved
      whole     |-> [buffer |-> << >>, sent |-> << >>, devices |-> << >>] ]
                              \* history: buffer, requests and devices of the run
                              \* had every response arrived as one chunk

\* discover(): a new socket, the 10 s timer, the connection attempt
StartRun(d) == [d EXCEPT !.phase = "connecting", !.timer = TRUE]

\* the connectionTimeout callback
OnTimeout(d) ==
    [d EXCEPT !.timer = FALSE,
              !.phase = "destroyed",
              !.inflight = << >>,
              !.completes = Append(@, << >>),
              !.resolved = TRUE]

\* a connect callback that leaves the 10 s timer pending
OnConnect_TimerKept(d) ==
    [d EXCEPT !.phase = "open",
              !.sent = IF config.username # "" /\ config.password # ""
                       THEN Append(@, "login")
                       ELSE Append(@, "backup")]

\* the connect callback of configSocket
OnConnect(d) ==
    [d EXCEPT !.timer = FALSE,
              !.phase = "open",
              !.sent = IF config.username # "" /\ config.password # ""
                       THEN Append(@, "login")
                       ELSE Append(@, "backup")]

\* XMLParser.parse of the buffer, as far as the 'data' listener looks at it:
\* the return value of a login response (parseTagValue turns the texts true and
\* false into booleans), the File of a backup response; white space between
\* elements is nothing to the parser
IsMarkup(fragment) == fragment # "\n"

ParseResponse(buffer) ==
    LET text == SelectSeq(buffer, IsMarkup)
    IN  IF Len(text) = 3 /\ text[1] = "<ILogin>" /\ text[3] = "</ILogin>"
        THEN [kind |-> "login", return |-> (text[2] = "true"), file |-> ""]
        ELSE IF Len(text) = 3 /\ text[1] = "<IBackup>" /\ text[3] = "</IBackup>"
        THEN [kind |-> "backup", return |-> FALSE, file |-> text[2]]
        ELSE [kind |-> "other", return |-> FALSE, file |-> ""]

HasClosingTag(buffer) ==
    \E i \in DOMAIN buffer : buffer[i] \in {"</IBackup>", "</ILogin>"}

\* a 'data' listener that saves the backup outside the try block at 229-234:
\* a failure to save is caught with the parse errors at 240
OnData_SaveUncaught(d, data, saves) ==
    LET buffer == d.buffer \o data
        result == ParseResponse(buffer)
    IN  IF ~HasClosingTag(buffer) THEN [d EXCEPT !.buffer = buffer]
        ELSE IF result.kind = "login" /\ result.return
        THEN [d EXCEPT !.buffer = << >>, !.sent = Append(@, "backup")]
        ELSE IF result.kind = "backup" /\ ~saves
        THEN [d EXCEPT !.buffer = buffer, !.unsaved = TRUE]
        ELSE IF result.kind = "backup"
        THEN [d EXCEPT !.buffer = buffer,
                       !.devices = @ \o DevicesOf(result.file),
                       !.phase = "ended"]
        ELSE [d EXCEPT !.buffer = buffer]

\* the 'data' listener of configSocket; saves says whether fs.writeFileSync
\* succeeds should the listener call it
OnData(d, data, saves) ==
    LET buffer == d.buffer \o data
        result == ParseResponse(buffer)
    IN  IF ~HasClosingTag(buffer) THEN [d EXCEPT !.buffer = buffer]
        ELSE IF result.kind = "login" /\ result.return
        THEN [d EXCEPT !.buffer = << >>, !.sent = Append(@, "backup")]
        ELSE IF result.kind = "backup"
        THEN [d EXCEPT !.buffer = buffer,
                       !.unsaved = @ \/ ~saves,
                       !.devices = @ \o DevicesOf(result.file),
                       !.phase = "ended"]
        ELSE [d EXCEPT !.buffer = buffer]

\* the 'error' listener of configSocket; the socket is destroyed, 'close' follows
OnError(d) ==
    [d EXCEPT !.timer = FALSE,
              !.errored = TRUE,
              !.phase = "destroyed",
              !.inflight = << >>,
              !.completes = Append(@, << >>),
              !.resolved = TRUE]

\* the 'close' listener of configSocket
OnClose(d) ==
    [d EXCEPT !.timer = FALSE,
              !.phase = "closed",
              !.inflight = << >>,
              !.completes = Append(@, d.devices),
              !.resolved = TRUE]

\* the run as it would be had every response so far arrived as one chunk
Whole(d) ==
    [d EXCEPT !.buffer = d.whole.buffer, !.sent = d.whole.sent, !.devices = d.whole.devices]

\* records w as the state of the run that receives whole responses
Recorded(d, w) ==
    [d EXCEPT !.whole = [buffer |-> w.buffer, sent |-> w.sent, devices |-> w.devices]]

\* the history is kept while the socket of the run can deliver data
Forgotten(d) == [d EXCEPT !.whole = NoRun.whole]

\* a step of a run whose socket is the command socket: destroying or closing
\* the one destroys the other
DiscStep_OnCommandSocket(r, d) ==
    /\ ~uncaught
    /\ disc' = [disc EXCEPT ![r] = d]
    /\ sockState' = IF d.phase \in {"destroyed", "closed"} THEN "destroyed" ELSE sockState
    /\ UNCHANGED <<config, connectListener, closeListeners, reconnectTimers,
                   closeEvents, writes, calls, lastCall>>
    /\ UNCHANGED <<dataVars, uncaught, backup, platform, accVars>>

\* a step of run r: nothing but the run changes
DiscStep(r, d) ==
    /\ ~uncaught
    /\ disc' = [disc EXCEPT ![r] = d]
    /\ UNCHANGED <<cmdVars, dataVars, uncaught, backup, platform, accVars>>

\* discover() is called: the next run starts, whatever the runs before it do
Discover ==
    \E r \in Runs :
        /\ disc[r].phase = "idle"
        /\ \A q \in 1..(r - 1) : disc[q].phase # "idle"
        /\ DiscStep(r, StartRun(disc[r]))

\* the 10 s timer fires
DiscTimeout(r) ==
    /\ disc[r].timer
    /\ DiscStep(r, Forgotten(OnTimeout(disc[r])))

\* the connection to port 2001 is established
DiscConnect(r) ==
    /\ disc[r].phase = "connecting"
    /\ DiscStep(r, Recorded(OnConnect(disc[r]), OnConnect(disc[r])))

\* the controller responds to the request it has not answered yet
DiscRespond(r) ==
    /\ disc[r].phase = "open"
    /\ disc[r].answered < Len(disc[r].sent)
    /\ disc[r].inflight = << >>
    /\ \E response \in IF disc[r].sent[disc[r].answered + 1] = "login"
                       THEN LoginResponses ELSE BackupResponses :
          DiscStep(r, Recorded([disc[r] EXCEPT !.inflight = response, !.answered = @ + 1],
                               OnData(Whole(disc[r]), response, TRUE)))

\* 'data' on configSocket: the next n fragments arrive as one chunk
DiscData(r) ==
    /\ disc[r].phase \in {"open", "ended"}
    /\ \E n \in 1..Len(disc[r].inflight), saves \in BOOLEAN :
          DiscStep(r, OnData([disc[r] EXCEPT !.inflight = SubSeq(@, n + 1, Len(@))],
                             SubSeq(disc[r].inflight, 1, n), saves))

\* 'error' on configSocket
DiscError(r) ==
    /\ disc[r].phase \in {"connecting", "open", "ended"}
    /\ DiscStep(r, Forgotten(OnError(disc[r])))

\* 'close' on configSocket after destroy() or after end()
DiscClose(r) ==
    /\ disc[r].phase \in {"destroyed", "ended"}
    /\ DiscStep(r, Forgotten(OnClose(disc[r])))

\* 'close' on configSocket because the controller closes the connection
DiscPeerClose(r) ==
    /\ disc[r].phase = "open"
    /\ DiscStep(r, Forgotten(OnClose(disc[r])))

-----------------------------------------------------------------------------
(* The backup parser *)

validTypes == <<"Load", "Thermostat", "Blind", "RelayBlind", "QubeBlind">>

\* The XML parser (parseAttributeValue, parseTagValue) turns a decimal literal
\* into a number; ValueString is String(value), Truthy its truth value.
ValueString(s) == IF IsInteger(s) THEN DigitsOf(DigitsValue(s, Len(s))) ELSE s
Truthy(s) == s # << >> /\ ~(IsInteger(s) /\ DigitsValue(s, Len(s)) = 0)

\* omitList: config.omit split at commas, each piece trimmed
omitList(omit) ==
    IF omit = << >> THEN << >>
    ELSE LET pieces == Split(omit, ",") IN [i \in DOMAIN pieces |-> Trim(pieces[i])]

\* rangeList: config.range split at commas, each piece trimmed and parsed
rangeList(range) ==
    IF range = << >> THEN <<Num(0, 0), Num(999999999, 0)>>
    ELSE LET pieces == Split(range, ",")
         IN  [i \in DOMAIN pieces |-> parseInt(Trim(pieces[i]))]

\* a filter that looks at the omit list only
SkipsVid_OmitOnly(vid, omit, range) ==
    \E i \in DOMAIN omitList(omit) : omitList(omit)[i] = vid

\* the test both tiers make on a VID: it is in the omit list, or it is numeric
\* and outside the range
SkipsVid(vid, omit, range) ==
    LET numVid == parseInt(vid)
        low == rangeList(range)[1]
        high == rangeList(range)[2]
    IN  \/ \E i \in DOMAIN omitList(omit) : omitList(omit)[i] = vid
        \/ /\ numVid # NaN
           /\ \/ low # NaN /\ numVid.m < low.m
              \/ high # NaN /\ numVid.m > high.m

\* an area lookup with no default
AreaName_NoDefault(areas, areaId) ==
    IF areaId \in DOMAIN areas THEN areas[areaId] ELSE << >>

\* an area lookup that resolves nothing
AreaName_NeverResolved(areas, areaId) == <<"Main Area">>

\* areas[areaId]?.Name || 'Main Area'
AreaName(areas, areaId) ==
    IF areaId \in DOMAIN areas THEN areas[areaId] ELSE <<"Main Area">>

\* a VantageDevice; areaId (the area reference read) and tier (the pass that
\* made the device) are not fields of the source's record
Device(vid, name, type, areas, areaId, tier) ==
    [ VID |-> vid, Name |-> name, ObjectType |-> type,
      Area |-> AreaName(areas, areaId), areaId |-> areaId, tier |-> tier ]

\* the loop of extractAreasDirectly: an <Object>-wrapped <Area VID=".."> with a
\* <Name> (every area element of the model has one) is kept under its VID
\* unless the VID is taken
RECURSIVE AreasDirectly(_, _, _)
AreasDirectly(objects, i, areas) ==
    IF i > Len(objects) THEN areas
    ELSE LET e == objects[i]
             found == e.tag = "Area" /\ e.vidAttr # << >> /\ e.name # << >>
         IN  AreasDirectly(objects, i + 1,
                 IF found /\ e.vidAttr \notin DOMAIN areas
                 THEN (e.vidAttr :> e.name) @@ areas
                 ELSE areas)

\* the default area, created when no area is known
WithDefaultArea(areas) ==
    IF DOMAIN areas = {} THEN (<<"default_area">> :> <<"Main Area">>) ELSE areas

extractAreasDirectly(doc, areas) ==
    WithDefaultArea(IF doc.wrapped THEN AreasDirectly(doc.objects, 1, areas) ELSE areas)

\* _VID || VID || '' of a parsed element, as a string
ParsedVid(e) ==
    IF Truthy(e.vidAttr) THEN ValueString(e.vidAttr)
    ELSE IF Truthy(e.vidElem) THEN ValueString(e.vidElem)
    ELSE << >>

\* first pass: the elements obj.Area with ObjectType 'Area'
RECURSIVE FirstPass(_, _, _)
FirstPass(objects, i, areas) ==
    IF i > Len(objects) THEN areas
    ELSE LET e == objects[i]
             vid == ParsedVid(e)
             areaName == IF e.name # << >> THEN e.name ELSE <<"Unknown">>
         IN  FirstPass(objects, i + 1,
                 IF e.tag = "Area" /\ e.objectType = <<"Area">> /\ vid # << >>
                 THEN (vid :> areaName) @@ [k \in DOMAIN areas \ {vid} |-> areas[k]]
                 ELSE areas)

\* the standalone areas: obj.Area without ObjectType and with a VID attribute
RECURSIVE StandaloneAreas(_, _, _)
StandaloneAreas(objects, i, areas) ==
    IF i > Len(objects) THEN areas
    ELSE LET e == objects[i]
             vid == ValueString(e.vidAttr)
             areaName == IF e.name # << >> THEN e.name ELSE <<"Unknown">>
         IN  StandaloneAreas(objects, i + 1,
                 IF e.tag = "Area" /\ e.objectType = << >> /\ Truthy(e.vidAttr)
                    /\ vid \notin DOMAIN areas
                 THEN (vid :> areaName) @@ areas
                 ELSE areas)

\* second pass: the devices of the object collection from element i on, filtered,
\* with their areas, added to devices. deviceData.VID.toString() throws where
\* the VID child holds an element named toString: the pass ends there (threw),
\* the devices pushed before it staying in the array.
RECURSIVE SecondPass(_, _, _, _, _, _)
SecondPass(objects, i, areas, devices, omit, range) ==
    IF i > Len(objects) THEN [devices |-> devices, threw |-> FALSE]
    ELSE LET e == objects[i]
             vid == ParsedVid(e)
             areaId == IF Truthy(e.area) THEN ValueString(e.area) ELSE << >>
             deviceName == IF e.name # << >> THEN e.name ELSE <<"Unknown ", e.tag>>
             device == Device(vid, deviceName, e.tag, areas, areaId, "structured")
         IN  IF (\A t \in DOMAIN validTypes : validTypes[t] # e.tag)
             THEN SecondPass(objects, i + 1, areas, devices, omit, range)
             ELSE IF ~Truthy(e.vidAttr) /\ e.vidElem = NotText
             THEN [devices |-> devices, threw |-> TRUE]
             ELSE IF vid = << >> \/ SkipsVid(vid, omit, range)
             THEN SecondPass(objects, i + 1, areas, devices, omit, range)
             ELSE SecondPass(objects, i + 1, areas, Append(devices, device), omit, range)

\* what [^<]+ matches of the content of a child: nothing where the content
\* starts with an element
Text(content) == IF content = NotText THEN << >> ELSE content

\* the first text of a child named field in the elements lo..hi, << >> if none
FirstText(objects, lo, hi, field) ==
    IF \E j \in lo..hi : Text(objects[j][field]) # << >>
    THEN LET j == CHOOSE j \in lo..hi :
                      /\ Text(objects[j][field]) # << >>
                      /\ \A h \in lo..(j - 1) : Text(objects[h][field]) = << >>
         IN  objects[j][field]
    ELSE << >>

\* The matches of <type[^>]*>.*?<Name>[^<]+</Name>.*?</type> from element i on:
\* a match starts at a start tag of the type, runs to the first <Name> after it,
\* in whatever element, and ends at the first end tag of the type after that
\* name; the search goes on behind a match, or behind a start tag without match.
RECURSIVE DeviceMatches(_, _, _)
DeviceMatches(type, objects, i) ==
    IF i > Len(objects) THEN << >>
    ELSE IF objects[i].tag # type THEN DeviceMatches(type, objects, i + 1)
    ELSE LET named == { j \in i..Len(objects) : objects[j].name # << >> }
             j == CHOOSE j \in named : \A h \in named : j <= h
             closed == { k \in j..Len(objects) : objects[k].tag = type }
             k == CHOOSE k \in closed : \A h \in closed : k <= h
         IN  IF named = {} \/ closed = {} THEN DeviceMatches(type, objects, i + 1)
             ELSE <<[from |-> i, to |-> k, name |-> objects[j].name]>>
                      \o DeviceMatches(type, objects, k + 1)

\* the devices extractDevicesDirectly makes of the matches of one type
RECURSIVE DirectDevices(_, _, _, _, _, _)
DirectDevices(type, objects, matches, areas, omit, range) ==
    IF matches = << >> THEN << >>
    ELSE LET m == Head(matches)
             inElement == FirstText(objects, m.from, m.to, "vidElem")
             inNumber == FirstText(objects, m.from, m.to, "number")
             vid == IF objects[m.from].vidAttr # << >> THEN objects[m.from].vidAttr
                    ELSE IF inElement # << >> THEN inElement
                    ELSE inNumber
             areaId == FirstText(objects, m.from, m.to, "area")
             rest == DirectDevices(type, objects, Tail(matches), areas, omit, range)
         IN  IF vid = << >> THEN rest
             ELSE IF SkipsVid(vid, omit, range) THEN rest
             ELSE <<Device(vid, m.name, type, areas, areaId, "direct")>> \o rest

\* extractDevicesDirectly: the devices of every valid type, in the order of
\* validTypes, appended to devices
RECURSIVE DirectTypes(_, _, _, _, _)
DirectTypes(t, objects, areas, omit, range) ==
    IF t > Len(validTypes) THEN << >>
    ELSE DirectDevices(validTypes[t], objects,
                       DeviceMatches(validTypes[t], objects, 1), areas, omit, range)
             \o DirectTypes(t + 1, objects, areas, omit, range)

extractDevicesDirectly(doc, areas, devices, omit, range) ==
    LET known == IF DOMAIN areas = {} THEN extractAreasDirectly(doc, areas) ELSE areas
    IN  [ areas |-> known,
          devices |-> devices \o DirectTypes(1, doc.objects, known, omit, range),
          direct |-> TRUE,
          threw |-> FALSE ]

\* the areas of the structured pass: first pass, standalone areas, default area
StructuredAreas(doc) ==
    WithDefaultArea(StandaloneAreas(doc.objects, 1,
                        FirstPass(doc.objects, 1, extractAreasDirectly(doc, << >>))))

\* a processBackupFile whose body is in no try block
processBackupFile_NoOuterCatch(doc, omit, range) ==
    LET direct == extractAreasDirectly(doc, << >>)
        areas == StructuredAreas(doc)
        pass == SecondPass(doc.objects, 1, areas, << >>, omit, range)
    IN  IF doc.section = "none"
        THEN [areas |-> direct, devices |-> << >>, direct |-> FALSE, threw |-> FALSE]
        ELSE IF doc.malformed \/ ~doc.wrapped \/ doc.objects = << >>
        THEN extractDevicesDirectly(doc, direct, << >>, omit, range)
        ELSE [areas |-> areas, devices |-> pass.devices, direct |-> FALSE,
              threw |-> pass.threw]

\* processBackupFile, for the areas and devices of a run that are empty so far;
\* threw says that an error leaves the function. The alternative search for
\* areas (377-397) is left out: it runs when no area is known, and
\* extractAreasDirectly has left at least the default area.
processBackupFile(doc, omit, range) ==
    LET direct == extractAreasDirectly(doc, << >>)
        areas == StructuredAreas(doc)
        pass == SecondPass(doc.objects, 1, areas, << >>, omit, range)
    IN  IF doc.section = "none"
        THEN [areas |-> direct, devices |-> << >>, direct |-> FALSE, threw |-> FALSE]
        ELSE IF doc.malformed
        THEN extractDevicesDirectly(doc, direct, << >>, omit, range)
        ELSE IF ~doc.wrapped \/ doc.objects = << >>
        THEN extractDevicesDirectly(doc, direct, << >>, omit, range)
        ELSE IF pass.threw
        THEN extractDevicesDirectly(doc, areas, pass.devices, omit, range)
        ELSE [areas |-> areas, devices |-> pass.devices, direct |-> FALSE,
              threw |-> FALSE]

\* a run that has received no backup
NoBackup ==
    [ stage |-> "none",       \* none | ended | closed
      doc |-> [section |-> "none", wrapped |-> FALSE, malformed |-> FALSE,
               objects |-> << >>],
      omit |-> << >>,         \* config.omit
      range |-> << >>,        \* config.range
      areas |-> << >>,        \* the areas of the run: name by id
      devices |-> << >>,      \* the devices of the run
      direct |-> FALSE,       \* extractDevicesDirectly has been called
      threw |-> FALSE,        \* processBackupFile has thrown
      completes |-> << >> ]   \* the device lists of the discoveryComplete events

\* 'data' on configSocket completing a backup response: the file is decoded,
\* processBackupFile fills areas and devices, the socket is ended; an error
\* thrown by processBackupFile is caught at 240, before configSocket.end().
\* config.omit and config.range, which only the parser reads, are drawn here.
BackupData ==
    /\ ~uncaught
    /\ backup.stage = "none"
    /\ \E doc \in Documents, omit \in Omits, range \in Ranges :
          LET result == processBackupFile(doc, omit, range)
          IN  backup' = [backup EXCEPT !.stage = IF result.threw THEN "none" ELSE "ended",
                                       !.doc = doc, !.omit = omit,
                                       !.range = range, !.areas = result.areas,
                                       !.devices = result.devices,
                                       !.direct = result.direct,
                                       !.threw = result.threw]
    /\ UNCHANGED <<cmdVars, dataVars, uncaught, disc, platform, accVars>>

\* 'close' on configSocket after the backup: discoveryComplete(devices)
BackupClose ==
    /\ ~uncaught
    /\ backup.stage = "ended"
    /\ backup' = [backup EXCEPT !.stage = "closed",
                                 !.completes = Append(@, backup.devices)]
    /\ UNCHANGED <<cmdVars, dataVars, uncaught, disc, platform, accVars>>

-----------------------------------------------------------------------------
(* The platform *)

\* one part of an address between two points: (25[0-5]|2[0-4][0-9]|[01]?[0-9][0-9]?)
IsOctet(s) == IsInteger(s) /\ Len(s) <= 3 /\ (Len(s) = 3 => DigitsValue(s, 3) <= 255)

\* ipRegex.test(address)
ipRegex(address) ==
    LET octets == Split(address, ".")
    IN  Len(octets) = 4 /\ \A i \in 1..4 : IsOctet(octets[i])

\* a ConfigValidator.validate that looks at the address only
validate_AddressOnly(cfg) ==
    IF cfg.ipaddress = << >> THEN "ipaddress is required"
    ELSE IF ~ipRegex(cfg.ipaddress) THEN "invalid IP address format"
    ELSE "ok"

\* ConfigValidator.validate: the message of the error it throws, "ok" if none
validate(cfg) ==
    LET omits == omitList(cfg.omit)
        range == rangeList(cfg.range)
    IN  IF cfg.ipaddress = << >> THEN "ipaddress is required"
        ELSE IF ~ipRegex(cfg.ipaddress) THEN "invalid IP address format"
        ELSE IF (cfg.username # "" /\ cfg.password = "")
                  \/ (cfg.username = "" /\ cfg.password # "")
        THEN "both username and password must be provided"
        ELSE IF cfg.omit # << >> /\ ~(\A i \in DOMAIN omits : IsInteger(omits[i]))
        THEN "omit list must contain only numbers"
        ELSE IF cfg.range # << >>
                  /\ (\/ Len(range) # 2
                      \/ range[1] = NaN
                      \/ range[2] = NaN
                      \/ range[1].m >= range[2].m)
        THEN "range must be two numbers"
        ELSE "ok"

\* no platform constructed yet
NoPlatform ==
    [ stage  |-> "none",      \* none | failed | constructed | launched
      config |-> [ipaddress |-> << >>, username |-> "", password |-> "",
                  omit |-> << >>, range |-> << >>],
      opened |-> {} ]         \* the ports a connection has been attempted to

\* new VantagePlatform(log, config, api): the configuration is validated; an
\* error is logged and thrown again; otherwise the VantageInfusion is
\* constructed, which connects the command socket to port 3001, and the
\* listener of didFinishLaunching is registered
PlatformConstruct ==
    /\ platform.stage = "none"
    /\ \E cfg \in PlatformConfigs :
          platform' = IF validate(cfg) # "ok"
                      THEN [platform EXCEPT !.stage = "failed", !.config = cfg]
                      ELSE [platform EXCEPT !.stage = "constructed", !.config = cfg,
                                            !.opened = @ \cup {3001}]
    /\ UNCHANGED <<cmdVars, dataVars, uncaught, disc, backup, accVars>>

\* didFinishLaunching: startDiscovery() calls infusion.discover(), which
\* connects a socket to port 2001
DidFinishLaunching ==
    /\ platform.stage = "constructed"
    /\ platform' = [platform EXCEPT !.stage = "launched", !.opened = @ \cup {2001}]
    /\ UNCHANGED <<cmdVars, dataVars, uncaught, disc, backup, accVars>>

-----------------------------------------------------------------------------
(* The accessories of the platform *)

\* 'discoveryComplete' events the platform handles in one behaviour
MaxEvents == 2

\* texts of the devices, as sequences of characters
Lamp == <<"L", "a", "m", "p">>
Pump == <<"P", "u", "m", "p">>
Spot == <<"S", "p", "o", "t">>
Shade == <<"S", "h", "a", "d", "e">>
Climate == <<"C", "l", "i", "m", "a", "t", "e">>
AtticFan == <<"A", "t", "t", "i", "c", " ", "F", "a", "n">>
Hall == <<"H", "a", "l", "l">>
Attic == <<"A", "t", "t", "i", "c">>
Relay == <<"R", "e", "l", "a", "y">>
Motor == <<"M", "o", "t", "o", "r">>
LedNonDim == <<"L", "E", "D", " ", "n", "o", "n", "-", "D", "i", "m">>
LowVoltageRelay ==
    <<"L", "o", "w", " ", "V", "o", "l", "t", "a", "g", "e", " ", "R", "e", "l", "a", "y">>
HighVoltageRelay ==
    <<"H", "i", "g", "h", " ", "V", "o", "l", "t", "a", "g", "e", " ", "R", "e", "l", "a", "y">>
FluorMagNonDim ==
    <<"F", "l", "u", "o", "r", ".", " ", "M", "a", "g", " ", "n", "o", "n", "-", "D", "i", "m">>
FluorElectronicNonDim ==
    <<"F", "l", "u", "o", "r", ".", " ", "E", "l", "e", "c", "t", "r", "o", "n", "i", "c",
      " ", "n", "o", "n", "-", "D", "i", "m">>

\* a VantageDevice as the parser reports it
VantageDevice(vid, name, type, loadType, area) ==
    [ VID |-> vid, Name |-> name, ObjectType |-> type, LoadType |-> loadType,
      Area |-> area ]

Load7 == VantageDevice(<<"7">>, Lamp, "Load", << >>, Hall)
Relay7 == VantageDevice(<<"7">>, Pump, "Load", LowVoltageRelay, Hall)
Blind7 == VantageDevice(<<"7">>, Shade, "RelayBlind", << >>, Hall)
Thermostat7 == VantageDevice(<<"7">>, Climate, "Thermostat", << >>, Hall)
Fan12 == VantageDevice(<<"1", "2">>, AtticFan, "Load", Motor, Attic)
Load55 == VantageDevice(<<"5", "5">>, Spot, "Load", LedNonDim, Hall)

\* the device lists of the 'discoveryComplete' events: the empty list of a
\* failed run, lists of one and two devices, and a list holding a VID twice,
\* as a backup parsed twice or by both tiers gives
DeviceLists ==
    { << >>, <<Load7>>, <<Load7, Load7>>, <<Relay7, Fan12>>, <<Blind7, Load55>>,
      <<Thermostat7>> }

\* setpoint reports of the controller
LineThermTempHeat ==
    <<"R", ":", "T", "H", "E", "R", "M", "T", "E", "M", "P", " ", "7", " ",
      "H", "E", "A", "T", " ", "1", "8", "\n">>
LineThermTempCool ==
    <<"R", ":", "T", "H", "E", "R", "M", "T", "E", "M", "P", " ", "7", " ",
      "C", "O", "O", "L", " ", "2", "4", "\n">>

\* the lines the controller sends while accessories exist
StatusLines ==
    { LineLoad, LineGetLoad, LineLoadNotNumeric, LineBlind, LineGetBlind, LineInvoke,
      LineGetThermop, LineThermTempHeat, LineThermTempCool }

\* the values HomeKit writes: a Brightness or RotationSpeed, a TargetPosition,
\* a TargetHeatingCoolingState (0 off, 3 auto), and a TargetTemperature in
\* degrees Celsius
Brightnesses == { Num(l, 0) : l \in Levels }
TargetPositions == { Num(40, 0), Num(100, 0) }
TargetStates == {0, 3}
TargetTemperatures == {20, 24}

\* x > y of two numbers read with parseInt or written by HomeKit; false for NaN
Greater(x, y) == x.k = "num" /\ y.k = "num" /\ x.m > y.m

\* sprintf('%s', x) of such a number
Formatted(x) == IF x.k = "num" THEN ToString(x.m) ELSE "NaN"

ToLowerCase(s) ==
    [i \in DOMAIN s |->
        IF \E j \in 1..26 : UpperChars[j] = s[i]
        THEN LowerChars[CHOOSE j \in 1..26 : UpperChars[j] = s[i]]
        ELSE s[i]]

\* s.replace(c, ''): the first c is taken out
RemoveFirst(s, c) ==
    IF \E i \in 1..Len(s) : s[i] = c
    THEN LET i == CHOOSE j \in 1..Len(s) : s[j] = c /\ \A h \in 1..(j - 1) : s[h] # c
         IN  SubSeq(s, 1, i - 1) \o SubSeq(s, i + 1, Len(s))
    ELSE s

\* api.hap.uuid.generate(vidStr): a digest of the text
generate(vidStr) == <<"uuid">> \o vidStr

\* shouldSkipDevice: the VID is a piece of config.omit, or it is numeric and
\* config.range has two pieces between which it does not lie
shouldSkipDevice(vid, cfg) ==
    LET pieces == Split(cfg.omit, ",")
        numVid == parseInt(vid)
        range == [i \in DOMAIN Split(cfg.range, ",") |->
                    parseInt(Trim(Split(cfg.range, ",")[i]))]
    IN  \/ \E i \in DOMAIN pieces : Trim(pieces[i]) = vid
        \/ /\ numVid # NaN
           /\ Len(range) = 2
           /\ Greater(range[1], numVid) \/ Greater(numVid, range[2])

\* getDeviceName: the name behind the area's unless it holds the area's, the
\* first hyphen taken out, trimmed; "Device <VID>" if nothing is left
getDeviceName(device) ==
    LET name == IF device.Area # << >> /\ ~Includes(device.Name, device.Area)
                THEN device.Area \o <<" ">> \o device.Name
                ELSE device.Name
        text == Trim(RemoveFirst(name, "-"))
    IN  IF text = << >> THEN <<"D", "e", "v", "i", "c", "e", " ">> \o device.VID ELSE text

isRelay(device) == Includes(device.LoadType, Relay)

nonDimmableTypes ==
    { FluorMagNonDim, LedNonDim, FluorElectronicNonDim, LowVoltageRelay,
      HighVoltageRelay, Motor }

isDimmable(device) ==
    /\ device.ObjectType = "Load"
    /\ ~Includes(device.LoadType, Relay)
    /\ device.LoadType \notin nonDimmableTypes

\* getDeviceType; an ObjectType includes 'Blind' if it is one of the three
\* blind types
getDeviceType(device) ==
    IF device.ObjectType = "Thermostat" THEN "thermostat"
    ELSE IF device.ObjectType \in {"Blind", "RelayBlind", "QubeBlind"} THEN "blind"
    ELSE IF isRelay(device) THEN "relay"
    ELSE IF device.ObjectType = "Load"
    THEN (IF isDimmable(device) THEN "dimmer" ELSE "non-dimmer")
    ELSE "non-dimmer"

\* new VantageLoad(platform, config): isFan and isDimmer decide which
\* characteristics the service has
VantageLoad(cfg) ==
    [ kind |-> "VantageLoad", config |-> cfg,
      isFan |-> Includes(ToLowerCase(cfg.name), <<"f", "a", "n">>),
      isDimmer |-> cfg.type = "dimmer",
      state |-> [brightness |-> Num(100, 0), power |-> FALSE] ]

\* new VantageSwitch(platform, config)
VantageSwitch(cfg) ==
    [ kind |-> "VantageSwitch", config |-> cfg, state |-> [power |-> FALSE] ]

\* new VantageBlind(platform, config); positionState 0 decreasing, 1
\* increasing, 2 stopped
VantageBlind(cfg) ==
    [ kind |-> "VantageBlind", config |-> cfg,
      state |-> [currentPosition |-> Num(100, 0), targetPosition |-> Num(100, 0),
                 positionState |-> 2] ]

\* new VantageThermostat(platform, config); temperatureDisplayUnits, which
\* nothing but its own characteristic reads, is left out
VantageThermostat(cfg) ==
    [ kind |-> "VantageThermostat", config |-> cfg,
      state |-> [currentTemperature |-> Num(0, 0), targetTemperature |-> 0,
                 currentHeatingCoolingState |-> 0, targetHeatingCoolingState |-> 0,
                 heatingThreshold |-> 0, coolingThreshold |-> 0] ]

NoHandler == [kind |-> "none"]

\* the handler setupAccessoryHandler constructs for a device, NoHandler in the
\* default case
NewHandler(device) ==
    LET cfg == [name |-> getDeviceName(device), vid |-> device.VID,
                type |-> getDeviceType(device)]
    IN  IF device.ObjectType = "Thermostat" THEN VantageThermostat(cfg)
        ELSE IF device.ObjectType \in {"Blind", "RelayBlind", "QubeBlind"}
        THEN VantageBlind(cfg)
        ELSE IF device.ObjectType = "Load"
        THEN (IF isRelay(device) THEN VantageSwitch(cfg) ELSE VantageLoad(cfg))
        ELSE NoHandler

\* the operation the constructor of a handler calls last, and its lines
InitialCall(handler) ==
    CASE handler.kind \in {"VantageLoad", "VantageSwitch"} ->
            [op |-> "getLoadStatus", args |-> <<handler.config.vid>>,
             lines |-> << <<"GETLOAD", handler.config.vid>> >>]
      [] handler.kind = "VantageBlind" ->
            [op |-> "getBlindPosition", args |-> <<handler.config.vid>>,
             lines |-> << <<"GETBLIND", handler.config.vid>> >>]
      [] handler.kind = "VantageThermostat" ->
            [op |-> "getThermostatState", args |-> <<handler.config.vid>>,
             lines |-> << <<"INVOKE", handler.config.vid, "Thermostat.GetIndoorTemperature">>,
                          <<"GETTHERMOP", handler.config.vid>>,
                          <<"GETTHERMTEMP", handler.config.vid, "HEAT">>,
                          <<"GETTHERMTEMP", handler.config.vid, "COOL">> >>]

\* map.set(key, value)
MapSet(map, key, value) ==
    [k \in DOMAIN map \cup {key} |-> IF k = key THEN value ELSE map[k]]

\* setupAccessoryHandler: the handler is constructed, which requests the state
\* of the device, and stored under the VID; nothing in the default case
setupAccessoryHandler(st, device) ==
    LET handler == NewHandler(device)
    IN  IF handler = NoHandler THEN st
        ELSE [st EXCEPT !.deviceMap = MapSet(@, device.VID, handler),
                        !.lines = @ \o InitialCall(handler).lines,
                        !.lastCall = [op |-> InitialCall(handler).op,
                                      args |-> InitialCall(handler).args]]

\* the loop of the 'discoveryComplete' listener over devices[i..]: a device is
\* skipped, or the first accessory of its UUID in platform.accessories gets
\* the device as context and a handler, or a new accessory is made, gets a
\* handler and is put on newAccessories
RECURSIVE ForEachDevice(_, _, _, _)
ForEachDevice(devices, i, cfg, st) ==
    IF i > Len(devices) THEN st
    ELSE LET device == devices[i]
             uuid == generate(device.VID)
             found == { k \in DOMAIN st.accessories : st.accessories[k].UUID = uuid }
             first == CHOOSE k \in found : \A h \in found : k <= h
         IN  IF shouldSkipDevice(device.VID, cfg)
             THEN ForEachDevice(devices, i + 1, cfg, st)
             ELSE IF found # {}
             THEN ForEachDevice(devices, i + 1, cfg,
                      setupAccessoryHandler(
                          [st EXCEPT !.accessories[first].device = device], device))
             ELSE ForEachDevice(devices, i + 1, cfg,
                      setupAccessoryHandler(
                          [st EXCEPT !.newAccessories =
                                        Append(@, [UUID |-> uuid, device |-> device])],
                          device))

\* configureAccessory: Homebridge restores an accessory of an earlier run from
\* its cache before it launches the platform
configureAccessory ==
    /\ ~uncaught
    /\ platform.stage = "constructed"
    /\ accessories = << >>
    /\ accessories' = <<[UUID |-> generate(Load7.VID), device |-> Load7]>>
    /\ UNCHANGED <<cmdVars, dataVars, uncaught, disc, backup, platform,
                   registered, deviceMap, setpoints, completions>>

\* the 'discoveryComplete' listener of startDiscovery: the loop, then the new
\* accessories are registered with Homebridge at once and put on
\* platform.accessories
DiscoveryComplete ==
    /\ ~uncaught
    /\ platform.stage = "launched"
    /\ completions < MaxEvents
    /\ \E devices \in DeviceLists :
          LET st == ForEachDevice(devices, 1, platform.config,
                        [accessories |-> accessories, newAccessories |-> << >>,
                         deviceMap |-> deviceMap, lines |-> << >>,
                         lastCall |-> lastCall])
          IN  /\ deviceMap' = st.deviceMap
              /\ writes' = WriteAll(writes, st.lines, sockState)
              /\ lastCall' = st.lastCall
              /\ accessories' = st.accessories \o st.newAccessories
              /\ registered' = IF st.newAccessories # << >>
                               THEN Append(registered,
                                           [k \in DOMAIN st.newAccessories |->
                                               st.newAccessories[k].UUID])
                               ELSE registered
    /\ completions' = completions + 1
    /\ UNCHANGED <<config, sockState, connectListener, closeListeners,
                   reconnectTimers, closeEvents, calls>>
    /\ UNCHANGED <<dataVars, uncaught, disc, backup, platform, setpoints>>

\* the handler of an event under the event's VID after the platform's listener
\* for the event has run: updateState of a load or a switch, updatePosition
\* of a blind, updateTemperature and updateMode of a thermostat
Updated(handler, e) ==
    CASE e.name = "loadStatusChange" /\ handler.kind = "VantageLoad" ->
            [handler EXCEPT !.state.brightness = e.n,
                            !.state.power = Greater(e.n, Num(0, 0))]
      [] e.name = "loadStatusChange" /\ handler.kind = "VantageSwitch" ->
            [handler EXCEPT !.state.power = Greater(e.n, Num(0, 0))]
      [] e.name = "blindStatusChange" /\ handler.kind = "VantageBlind" ->
            [handler EXCEPT !.state.currentPosition = e.n,
                            !.state.targetPosition = e.n,
                            !.state.positionState = 2]
      [] e.name = "thermostatIndoorTemperatureChange"
            /\ handler.kind = "VantageThermostat" ->
            [handler EXCEPT !.state.currentTemperature = e.n]
      [] e.name = "thermostatIndoorModeChange" /\ handler.kind = "VantageThermostat" ->
            [handler EXCEPT !.state.currentHeatingCoolingState = e.n.m,
                            !.state.targetHeatingCoolingState = e.n.m]
      [] OTHER -> handler

\* listeners that update the handler of every VID
Emit_ToAll(map, e) == [vid \in DOMAIN map |-> Updated(map[vid], e)]

\* infusion.emit(e): the listeners of setupEventHandlers look the handler up
\* under the event's VID
Emit(map, e) ==
    IF e.a \in DOMAIN map THEN [map EXCEPT ![e.a] = Updated(@, e)] ELSE map

RECURSIVE EmitAll(_, _)
EmitAll(map, events) ==
    IF events = << >> THEN map ELSE EmitAll(Emit(map, Head(events)), Tail(events))

NoSetpoints == [heat |-> NoNum, cool |-> NoNum]

\* the setpoints after the lines of a chunk: R:THERMTEMP <vid> HEAT|COOL <value>
\* reports the heat or the cool setpoint of a thermostat; the reports for a
\* VID that has a thermostat accessory are kept
RECURSIVE Reported(_, _, _)
Reported(sp, results, map) ==
    IF results = << >> THEN sp
    ELSE LET parts == Head(results).parts
             vid == At(parts, 1)
             old == IF vid \in DOMAIN sp THEN sp[vid] ELSE NoSetpoints
             kept == /\ At(parts, 0) = R_THERMTEMP
                     /\ vid \in DOMAIN map
                     /\ map[vid].kind = "VantageThermostat"
         IN  IF kept /\ At(parts, 2) = HEAT
             THEN Reported(MapSet(sp, vid, [old EXCEPT !.heat = parseFloat(At(parts, 3))]),
                           Tail(results), map)
             ELSE IF kept /\ At(parts, 2) = COOL
             THEN Reported(MapSet(sp, vid, [old EXCEPT !.cool = parseFloat(At(parts, 3))]),
                           Tail(results), map)
             ELSE Reported(sp, Tail(results), map)

\* what handleCommandData does with each of the lines
Decoded == [line \in StatusLines |-> handleCommandData(line)]

\* 'data' on the command socket with one whole line: handleCommandData emits
\* the events of the line, and the listeners of the platform, registered by
\* its constructor, run
StatusLine ==
    /\ ~uncaught
    /\ platform.stage \in {"constructed", "launched"}
    /\ \E line \in StatusLines :
          LET done == Decoded[line]
          IN  /\ deviceMap' = EmitAll(deviceMap, EventsOf(done))
              /\ setpoints' = Reported(setpoints, done, deviceMap)
              /\ uncaught' = (done # << >> /\ done[Len(done)].threw)
    /\ UNCHANGED <<cmdVars, dataVars, disc, backup, platform, accessories, registered,
                   completions>>

\* what an accessory's onSet leaves unchanged besides the command channel
SetFrame == UNCHANGED <<dataVars, uncaught, disc, backup, platform, accessories,
                        registered, setpoints, completions>>

\* the lines of setLoadLevel(vid, level), time = 1
LoadLevelLines(vid, level) ==
    << <<"INVOKE", vid, "Load.Ramp", "6", ToString(1), Formatted(level)>> >>

\* an On handler that keeps brightness 0
LoadOn_KeepsZero(handler, value) == [handler EXCEPT !.state.power = value]

\* the On handler of a load, light or fan
LoadOn(handler, value) ==
    [handler EXCEPT !.state.power = value,
                    !.state.brightness = IF value /\ @ = Num(0, 0) THEN Num(100, 0) ELSE @]

\* HomeKit writes On of a load
LoadOnSet ==
    \E vid \in DOMAIN deviceMap, value \in BOOLEAN :
        LET handler == LoadOn(deviceMap[vid], value)
            level == IF handler.state.power THEN handler.state.brightness ELSE Num(0, 0)
        IN  /\ deviceMap[vid].kind = "VantageLoad"
            /\ deviceMap' = [deviceMap EXCEPT ![vid] = handler]
            /\ Send("setLoadLevel", <<vid, level>>, LoadLevelLines(vid, level))
            /\ SetFrame

\* the handler of Brightness and of RotationSpeed
LoadLevel(handler, value) ==
    [handler EXCEPT !.state.brightness = value,
                    !.state.power = Greater(value, Num(0, 0))]

\* HomeKit writes RotationSpeed of a fan
LoadRotationSpeedSet ==
    \E vid \in DOMAIN deviceMap, value \in Brightnesses :
        /\ deviceMap[vid].kind = "VantageLoad" /\ deviceMap[vid].isFan
        /\ deviceMap' = [deviceMap EXCEPT ![vid] = LoadLevel(@, value)]
        /\ Send("setLoadLevel", <<vid, value>>, LoadLevelLines(vid, value))
        /\ SetFrame

\* HomeKit writes Brightness of a dimmable light
LoadBrightnessSet ==
    \E vid \in DOMAIN deviceMap, value \in Brightnesses :
        /\ deviceMap[vid].kind = "VantageLoad"
        /\ ~deviceMap[vid].isFan /\ deviceMap[vid].isDimmer
        /\ deviceMap' = [deviceMap EXCEPT ![vid] = LoadLevel(@, value)]
        /\ Send("setLoadLevel", <<vid, value>>, LoadLevelLines(vid, value))
        /\ SetFrame

\* HomeKit writes On of a switch
SwitchOnSet ==
    \E vid \in DOMAIN deviceMap, value \in BOOLEAN :
        LET level == IF value THEN Num(100, 0) ELSE Num(0, 0)
        IN  /\ deviceMap[vid].kind = "VantageSwitch"
            /\ deviceMap' = [deviceMap EXCEPT ![vid].state.power = value]
            /\ Send("setLoadLevel", <<vid, level>>, LoadLevelLines(vid, level))
            /\ SetFrame

\* the TargetPosition handler of a blind
TargetPosition(handler, newPosition) ==
    [handler EXCEPT !.state.targetPosition = newPosition,
                    !.state.positionState =
                        IF Greater(newPosition, handler.state.currentPosition) THEN 1
                        ELSE IF Greater(handler.state.currentPosition, newPosition) THEN 0
                        ELSE @]

\* HomeKit writes TargetPosition of a blind
BlindTargetPositionSet ==
    \E vid \in DOMAIN deviceMap, value \in TargetPositions :
        /\ deviceMap[vid].kind = "VantageBlind"
        /\ deviceMap' = [deviceMap EXCEPT ![vid] = TargetPosition(@, value)]
        /\ Send("setBlindPosition", <<vid, value>>,
                << <<"BLIND", vid, "POS", Formatted(value)>> >>)
        /\ SetFrame

\* HomeKit writes TargetHeatingCoolingState of a thermostat
ThermostatTargetStateSet ==
    \E vid \in DOMAIN deviceMap, value \in TargetStates :
        /\ deviceMap[vid].kind = "VantageThermostat"
        /\ deviceMap' = [deviceMap EXCEPT ![vid].state.targetHeatingCoolingState = value]
        /\ Send("setThermostatMode", <<vid, value>>, << <<"THERMOP", vid, ModeMap(value)>> >>)
        /\ SetFrame

\* HomeKit writes TargetTemperature of a thermostat
ThermostatTargetTemperatureSet ==
    \E vid \in DOMAIN deviceMap, value \in TargetTemperatures :
        LET state == deviceMap[vid].state
        IN  /\ deviceMap[vid].kind = "VantageThermostat"
            /\ deviceMap' = [deviceMap EXCEPT ![vid].state.targetTemperature = value]
            /\ Send("setThermostatTemperature",
                    <<vid, value, state.targetHeatingCoolingState,
                      state.heatingThreshold, state.coolingThreshold>>,
                    ThermostatTemperatureLines(vid, value, state.targetHeatingCoolingState,
                                               state.heatingThreshold,
                                               state.coolingThreshold))
            /\ SetFrame

-----------------------------------------------------------------------------
(* The command channel *)

Init ==
    /\ config \in Configs
    /\ sockState = "connecting"
    /\ connectListener = TRUE
    /\ closeListeners = 0
    /\ reconnectTimers = 0
    /\ closeEvents = 0
    /\ writes = << >>
    /\ calls = 0
    /\ lastCall = [op |-> "none", args |-> << >>]
    /\ inbound = << >>
    /\ rxAll = << >>
    /\ chunkLog = << >>
    /\ uncaught = FALSE
    /\ disc = [r \in Runs |-> NoRun]
    /\ backup = NoBackup
    /\ platform = NoPlatform
    /\ accessories = << >>
    /\ registered = << >>
    /\ deviceMap = [vid \in {} |-> 0]
    /\ setpoints = [vid \in {} |-> 0]
    /\ completions = 0

Next ==
    \/ Connect
    \/ SocketError
    \/ Close
    \/ getLoadStatus
    \/ setLoadLevel
    \/ setBlindPosition
    \/ getBlindPosition
    \/ getThermostatState
    \/ setThermostatMode
    \/ setThermostatTemperature

Spec == Init /\ [][Next]_vars

\* the command channel receiving status lines
NextData ==
    \/ Connect
    \/ SocketError
    \/ Close
    \/ ControllerSends
    \/ Data

SpecData == Init /\ [][NextData]_vars

\* the discovery runs
NextDiscovery ==
    \/ Discover
    \/ \E r \in Runs :
          \/ DiscTimeout(r)
          \/ DiscConnect(r)
          \/ DiscRespond(r)
          \/ DiscData(r)
          \/ DiscError(r)
          \/ DiscClose(r)
          \/ DiscPeerClose(r)

SpecDiscovery == Init /\ [][NextDiscovery]_vars

\* the parsing of a backup and the completion of its run
NextParser ==
    \/ BackupData
    \/ BackupClose

SpecParser == Init /\ [][NextParser]_vars

\* the construction of the platform
NextPlatform ==
    \/ PlatformConstruct
    \/ DidFinishLaunching

SpecPlatform == Init /\ [][NextPlatform]_vars

\* the platform making accessories of the devices discovered
NextRegistry ==
    \/ PlatformConstruct
    \/ configureAccessory
    \/ DidFinishLaunching
    \/ DiscoveryComplete

SpecRegistry == Init /\ [][NextRegistry]_vars

\* the platform, its accessories and the status lines of the controller
NextEvents ==
    \/ PlatformConstruct
    \/ configureAccessory
    \/ DidFinishLaunching
    \/ DiscoveryComplete
    \/ StatusLine

SpecEvents == Init /\ [][NextEvents]_vars

\* the accessories of loads at work: lights, fans and relay switches
NextLoad ==
    \/ PlatformConstruct
    \/ DidFinishLaunching
    \/ DiscoveryComplete
    \/ StatusLine
    \/ LoadOnSet
    \/ LoadRotationSpeedSet
    \/ LoadBrightnessSet
    \/ SwitchOnSet

SpecLoad == Init /\ [][NextLoad]_vars

\* the blind accessories at work
NextBlind ==
    \/ PlatformConstruct
    \/ DidFinishLaunching
    \/ DiscoveryComplete
    \/ StatusLine
    \/ BlindTargetPositionSet

SpecBlind == Init /\ [][NextBlind]_vars

\* the thermostat accessories at work
NextThermostat ==
    \/ PlatformConstruct
    \/ DidFinishLaunching
    \/ DiscoveryComplete
    \/ StatusLine
    \/ ThermostatTargetStateSet
    \/ ThermostatTargetTemperatureSet

SpecThermostat == Init /\ [][NextThermostat]_vars

\* both channels at work: the command socket, an outbound command, and the
\* first discovery run
NextChannels ==
    \/ Connect
    \/ SocketError
    \/ Close
    \/ setLoadLevel
    \/ Discover
    \/ DiscTimeout(1)
    \/ DiscConnect(1)
    \/ DiscRespond(1)
    \/ DiscData(1)
    \/ DiscError(1)
    \/ DiscClose(1)
    \/ DiscPeerClose(1)

SpecChannels == Init /\ [][NextChannels]_vars

\* The runtime fires a pending timer and emits 'close' on a destroyed socket;
\* the controller is taken to close its side once the client has ended its own.
\* Whether the controller answers, or closes an open connection, is up to it.
FairSpecDiscovery ==
    /\ SpecDiscovery
    /\ \A r \in Runs : WF_vars(DiscTimeout(r)) /\ WF_vars(DiscClose(r))

-----------------------------------------------------------------------------
(* Properties of the command channel *)

LinesOf(log) == [i \in DOMAIN log |-> log[i].line]

\* every line result of every 'data' event so far, in order
RECURSIVE ResultsOf(_)
ResultsOf(log) ==
    IF log = << >> THEN << >> ELSE Head(log).lines \o ResultsOf(Tail(log))

PartsOf(results) == [i \in DOMAIN results |-> results[i].parts]

\* C1: after every close of the command socket, the first included, a reconnect
\* attempt is scheduled: a closed socket has a reconnect timer pending.
C1_ReconnectScheduledAfterClose ==
    sockState = "closed" => reconnectTimers >= 1

\* C2: the n-th close event schedules exactly one reconnect, whatever the number
\* of earlier close events.
C2_EachCloseSchedulesOneReconnect ==
    [][closeEvents' = closeEvents + 1 => reconnectTimers' = reconnectTimers + 1]_vars

C4_ChunkingPreservesLines ==
    (rxAll # << >> /\ rxAll[Len(rxAll)] = "\n") =>
        /\ PartsOf(ResultsOf(chunkLog)) = PartsOf(handleCommandData(rxAll))
        /\ EventsOf(ResultsOf(chunkLog)) = EventsOf(handleCommandData(rxAll))

\* C14: setThermostatTemperature in Auto mode issues at most one write:
\* THERMTEMP <vid> COOL <value> when value is above the cooling threshold,
\* THERMTEMP <vid> HEAT <value> when value is below the heating threshold, and
\* no write when heating <= value <= cooling.
C14_AutoModeDeadBand ==
    [][(calls' = calls + 1 /\ lastCall'.op = "setThermostatTemperature"
            /\ lastCall'.args[3] = 3) =>
          LET vid == lastCall'.args[1]
              value == lastCall'.args[2]
              heating == lastCall'.args[4]
              cooling == lastCall'.args[5]
              written == SubSeq(LinesOf(writes'), Len(writes) + 1, Len(writes'))
          IN  /\ SubSeq(writes', 1, Len(writes)) = writes
              /\ Len(written) <= 1
              /\ value > cooling => written = << <<"THERMTEMP", vid, "COOL", ToString(value)>> >>
              /\ value < heating => written = << <<"THERMTEMP", vid, "HEAT", ToString(value)>> >>
              /\ (heating <= value /\ value <= cooling) => written = << >>]_vars

\* C14 witness: two calls have been made, the last one in Auto mode with the
\* value on a threshold, and the only write of the two is the COOL setpoint 80
\* of the first
C14_Witness ==
    /\ lastCall.op = "setThermostatTemperature"
    /\ lastCall.args[3] = 3
    /\ lastCall.args[2] \in {65, 75}
    /\ calls = 2
    /\ \E i \in DOMAIN writes :
          /\ writes[i].by = "api"
          /\ writes[i].line = <<"THERMTEMP", "7", "COOL", "80">>
    /\ Cardinality({ i \in DOMAIN writes : writes[i].by = "api" }) = 1

\* the lines written to the command socket in this step
Written == SubSeq(LinesOf(writes'), Len(writes) + 1, Len(writes'))

\* C26: setThermostatMode writes exactly one line THERMOP <vid> <token>, the
\* token being OFF, HEAT, COOL, AUTO for the modes 0, 1, 2, 3 and OFF for every
\* other mode value.
C26_ThermostatModeLine ==
    [][(calls' = calls + 1 /\ lastCall'.op = "setThermostatMode") =>
          LET vid == lastCall'.args[1]
              mode == lastCall'.args[2]
              token == IF mode = 1 THEN "HEAT"
                       ELSE IF mode = 2 THEN "COOL"
                       ELSE IF mode = 3 THEN "AUTO"
                       ELSE "OFF"
          IN  /\ SubSeq(writes', 1, Len(writes)) = writes
              /\ Written = << <<"THERMOP", vid, token>> >>]_vars

\* C26 witness: setThermostatMode was called with the mode value 4 and wrote
\* THERMOP 7 OFF
C26_Witness ==
    /\ lastCall = [op |-> "setThermostatMode", args |-> <<"7", 4>>]
    /\ writes # << >>
    /\ writes[Len(writes)].line = <<"THERMOP", "7", "OFF">>
    /\ writes[Len(writes)].by = "api"

\* C29: setThermostatTemperature outside Auto mode writes exactly one
\* THERMTEMP <vid> HEAT <value> in Heat mode and exactly one
\* THERMTEMP <vid> COOL <value> in Cool mode, whatever the thresholds, and
\* nothing in Off mode or with any other mode value.
C29_SetpointOutsideAuto ==
    [][(calls' = calls + 1 /\ lastCall'.op = "setThermostatTemperature"
            /\ lastCall'.args[3] # 3) =>
          LET vid == lastCall'.args[1]
              value == lastCall'.args[2]
              mode == lastCall'.args[3]
          IN  /\ SubSeq(writes', 1, Len(writes)) = writes
              /\ mode = 1 => Written = << <<"THERMTEMP", vid, "HEAT", ToString(value)>> >>
              /\ mode = 2 => Written = << <<"THERMTEMP", vid, "COOL", ToString(value)>> >>
              /\ mode \notin {1, 2} => Written = << >>]_vars

\* C29 witness: a call in Off mode wrote nothing after a call in Heat mode, with
\* a value above both thresholds, wrote its HEAT setpoint
C29_Witness ==
    /\ lastCall.op = "setThermostatTemperature"
    /\ lastCall.args[3] = 0
    /\ calls = 2
    /\ Cardinality({ i \in DOMAIN writes : writes[i].by = "api" }) = 1
    /\ \E i \in DOMAIN writes :
          writes[i].by = "api" /\ writes[i].line = <<"THERMTEMP", "7", "HEAT", "80">>

\* C8: every write of an outbound operation is issued while the channel is Ready.
C8_WritesOnlyWhileReady ==
    \A i \in DOMAIN writes : writes[i].by = "api" => writes[i].at = "connected"

\* the verbs of the dispatch table of the specification
TableVerbs ==
    { S_LOAD, R_GETLOAD, S_BLIND, R_GETBLIND, R_INVOKE, S_THERMOP, R_GETTHERMOP,
      R_THERMTEMP }

C10_MalformedLineNeverStops ==
    /\ ~uncaught
    /\ \A i \in DOMAIN chunkLog :
          Len(chunkLog[i].lines) = Len(Split(chunkLog[i].chunk, "\n"))

\* the numeric argument of a status line is there to parse and is no number
NumericArgumentFails(parts) ==
    \/ /\ At(parts, 0) \in {S_LOAD, R_GETLOAD, S_BLIND, R_GETBLIND}
       /\ parseInt(At(parts, 2)) = NaN
    \/ /\ At(parts, 0) = R_INVOKE
       /\ parseFloat(At(parts, 2)) = NaN
    \/ /\ At(parts, 0) = R_THERMTEMP
       /\ parseFloat(At(parts, 3)) = NaN

\* C11: a status line whose numeric argument does not parse as a number (level,
\* position, value, setpoint) is a no-op: it raises no event.
C11_UnparsedNumberRaisesNothing ==
    \A i \in DOMAIN chunkLog : \A j \in DOMAIN chunkLog[i].lines :
        LET r == chunkLog[i].lines[j]
        IN  NumericArgumentFails(r.parts) => r.events = << >>

\* a line <verb> <vid> <level> of a load verb with an integer level
IsLoadLine(parts) ==
    /\ Len(parts) = 3
    /\ parts[1] \in {S_LOAD, R_GETLOAD}
    /\ IsInteger(parts[3])

\* C12: each line S:LOAD <vid> <level> or R:GETLOAD <vid> <level> with an integer
\* level raises exactly one load-changed event, carrying the vid as a string and
\* the level as an integer, and no other event; a chunk that is one such line
\* and its newline raises one event, not two.
C12_LoadLineRaisesOneEvent ==
    \A i \in DOMAIN chunkLog :
        /\ \A j \in DOMAIN chunkLog[i].lines :
              LET r == chunkLog[i].lines[j]
              IN  IsLoadLine(r.parts) =>
                      r.events = <<Event("loadStatusChange", r.parts[2],
                                         Num(DigitsValue(r.parts[3], Len(r.parts[3])), 0),
                                         NoNum)>>
        /\ LET chunk == chunkLog[i].chunk
               text == SubSeq(chunk, 1, Len(chunk) - 1)
           IN  (/\ chunk[Len(chunk)] = "\n"
                /\ \A k \in DOMAIN text : text[k] # "\n"
                /\ IsLoadLine(Split(text, " "))) =>
                   Len(EventsOf(chunkLog[i].lines)) = 1

\* C12 witness: the chunk "R:GETLOAD 12 0\n" raised loadStatusChange("12", 0) and
\* nothing else
C12_Witness ==
    \E i \in DOMAIN chunkLog :
        /\ chunkLog[i].chunk = LineGetLoad
        /\ EventsOf(chunkLog[i].lines)
              = <<Event("loadStatusChange", <<"1", "2">>, Num(0, 0), NoNum)>>

\* a line of a thermostat verb that carries a mode token
IsThermostatLine(parts) ==
    /\ Len(parts) >= 3
    /\ parts[1] \in {S_THERMOP, R_GETTHERMOP, R_THERMTEMP}

\* C13: for S:THERMOP, R:GETTHERMOP and R:THERMTEMP lines the mode is decoded from
\* the mode token by substring match in the priority OFF, HEAT, COOL, otherwise
\* Auto, and exactly one thermostat-mode-changed event is raised for the line's
\* vid; it carries the parsed third argument as setpoint for R:THERMTEMP and the
\* no-setpoint sentinel -1 for the other two verbs.
C13_ThermostatLineDecodesMode ==
    \A i \in DOMAIN chunkLog : \A j \in DOMAIN chunkLog[i].lines :
        LET r == chunkLog[i].lines[j]
            token == r.parts[3]
            mode == CASE Includes(token, OFF)  -> 0
                      [] ~Includes(token, OFF) /\ Includes(token, HEAT) -> 1
                      [] ~Includes(token, OFF) /\ ~Includes(token, HEAT)
                            /\ Includes(token, COOL) -> 2
                      [] OTHER -> 3
            setpoint == IF r.parts[1] = R_THERMTEMP
                        THEN parseFloat(IF Len(r.parts) >= 4 THEN r.parts[4] ELSE Undefined)
                        ELSE Num(-1, 0)
        IN  IsThermostatLine(r.parts) =>
                r.events = <<Event("thermostatIndoorModeChange", r.parts[2],
                                   Num(mode, 0), setpoint)>>

\* C13 witness: "S:THERMOP 7 HEATOFF" was decoded as Off without setpoint,
\* or "R:GETTHERMOP 7 COOLHEAT" as Heat, or "R:THERMTEMP 7 COOL 68.5" as Cool
\* with setpoint 68.5
C13_Witness ==
    \E i \in DOMAIN chunkLog :
        \/ /\ chunkLog[i].chunk = LineThermopHeatOff
           /\ EventsOf(chunkLog[i].lines)
                 = <<Event("thermostatIndoorModeChange", <<"7">>, Num(0, 0), Num(-1, 0))>>
        \/ /\ chunkLog[i].chunk = LineGetThermopCoolHeat
           /\ EventsOf(chunkLog[i].lines)
                 = <<Event("thermostatIndoorModeChange", <<"7">>, Num(1, 0), Num(-1, 0))>>
        \/ /\ chunkLog[i].chunk = LineThermTemp
           /\ EventsOf(chunkLog[i].lines)
                 = <<Event("thermostatIndoorModeChange", <<"7">>, Num(2, 0), Num(685, 1))>>

\* C31: subscribers are registered once and never per event: handling a socket
\* event never adds a listener, so the command socket has, after any number of
\* events, the listeners setupCommandSocket gave it and no more.
C31_NoListenerAddedPerEvent == closeListeners = 0

-----------------------------------------------------------------------------
(* Properties of the discovery runs *)

\* C5: each discovery run emits exactly one discovery-complete event, whichever
\* way it ends: never more than one, and one once its socket has closed.
C5_OneCompletionPerRun ==
    \A r \in Runs :
        /\ Len(disc[r].completes) <= 1
        /\ disc[r].phase = "closed" => Len(disc[r].completes) = 1

\* C6: every discovery run eventually completes: once discover() has been called,
\* a discovery-complete event is eventually emitted and the promise resolved.
C6_DiscoveryEventuallyCompletes ==
    \A r \in Runs :
        (disc[r].phase # "idle") ~> (disc[r].resolved /\ disc[r].completes # << >>)

\* C7: at most one discovery run is in flight: no two runs are started and not
\* yet completed at the same time.
C7_OneRunInFlight ==
    Cardinality({ r \in Runs : disc[r].phase # "idle" /\ ~disc[r].resolved }) <= 1

\* C19: when the discovery socket reports an error, the run is aborted with an
\* empty device list: no discovery-complete event of that run carries a non-empty
\* list, also when devices had been parsed before the error.
C19_ErrorAbortsWithEmptyList ==
    \A r \in Runs :
        disc[r].errored =>
            \A i \in DOMAIN disc[r].completes : disc[r].completes[i] = << >>

\* the credentials of the configuration are both given
HasCredentials == config.username # "" /\ config.password # ""

\* the number of backup-file requests in a sequence of requests
BackupRequests(sent) == Cardinality({ i \in DOMAIN sent : sent[i] = "backup" })

\* the closing tag of the response to the first request of the run has arrived
FirstResponseReceived(d) ==
    d.phase = "open" /\ d.answered = 1 /\ ~HasClosingTag(d.inflight)

\* C21: once a login response has been received on the discovery channel, the
\* backup-file request is written whatever the response reports: after a login
\* response whose return field says false as after one that says true.
C21_BackupRequestedAfterAnyLoginResponse ==
    \A r \in Runs :
        (disc[r].sent # << >> /\ disc[r].sent[1] = "login" /\ FirstResponseReceived(disc[r]))
            => disc[r].sent = <<"login", "backup">>

\* C22: with credentials the login request is the first write of a run and the
\* backup-file request is written only after a login response has been received;
\* without credentials the backup-file request is the first write and no login
\* request is ever written; in both cases the run writes exactly one backup-file
\* request: never two, and one once the connection is established (no
\* credentials) or the login response has been received (credentials).
C22_RequestOrder ==
    \A r \in Runs :
        LET d == disc[r]
        IN  /\ BackupRequests(d.sent) <= 1
            /\ HasCredentials =>
                  /\ d.sent # << >> => d.sent[1] = "login"
                  /\ BackupRequests(d.sent) = 1 =>
                        d.answered >= 1 /\ (d.answered = 1 => ~HasClosingTag(d.inflight))
                  /\ FirstResponseReceived(d) => BackupRequests(d.sent) = 1
            /\ ~HasCredentials =>
                  /\ \A i \in DOMAIN d.sent : d.sent[i] # "login"
                  /\ d.sent # << >> => d.sent = <<"backup">>

\* the chunk the 'data' listener of run r handles in this step
ChunkOf(r) ==
    SubSeq(disc[r].inflight, 1, Len(disc[r].inflight) - Len(disc'[r].inflight))

\* the 'data' listener of run r decodes its buffer in this step: it writes a
\* request, empties the buffer, adds devices or ends the connection
Decodes(r) ==
    /\ disc[r].phase \in {"open", "ended"} /\ disc'[r].phase \in {"open", "ended"}
    /\ \/ disc'[r].sent # disc[r].sent
       \/ disc'[r].devices # disc[r].devices
       \/ disc'[r].phase # disc[r].phase
       \/ disc[r].buffer # << >> /\ disc'[r].buffer = << >>

\* C23: the discovery channel decodes its buffer only when the buffer holds a
\* closing tag of a response envelope, and the outcome of a run (the requests
\* written, the devices of the run) is, once a response has arrived whole, what
\* it is when every response arrives as one chunk.
C23_ChunkingEquivalence ==
    /\ [](\A r \in Runs :
            (disc[r].phase \in {"open", "ended"} /\ disc[r].inflight = << >>) =>
                /\ disc[r].sent = disc[r].whole.sent
                /\ disc[r].devices = disc[r].whole.devices)
    /\ [][\A r \in Runs :
            Decodes(r) => HasClosingTag(disc[r].buffer \o ChunkOf(r))]_vars

\* the 'data' listener of run r handles a backup response in this step: it
\* ends the connection, or it fails to save the file
BackupStep(r) ==
    \/ disc[r].phase = "open" /\ disc'[r].phase = "ended"
    \/ ~disc[r].unsaved /\ disc'[r].unsaved

\* the socket of run r closes in this step, after configSocket.end()
CloseStep(r) == disc[r].phase = "ended" /\ disc'[r].phase = "closed"

\* C27: when a backup-file response is received the backup is parsed before the
\* connection is closed: the step that handles the response adds the devices the
\* parser makes of the file, in the parser's order, and raises no event, whether
\* or not the diagnostic copy could be saved; the discovery-complete event raised
\* when the connection then closes carries exactly the devices of the run and
\* resolves the run.
C27_ParsedThenClosed ==
    [][\A r \in Runs :
          /\ BackupStep(r) =>
                /\ disc'[r].devices =
                      disc[r].devices \o DevicesOf(ParseResponse(disc'[r].buffer).file)
                /\ disc'[r].phase = "ended"
                /\ disc'[r].completes = disc[r].completes
          /\ CloseStep(r) =>
                /\ disc'[r].completes = Append(disc[r].completes, disc[r].devices)
                /\ disc'[r].resolved]_vars

\* C27 witness: a run whose backup could not be saved has parsed it and has,
\* on close, reported its two devices
C27_Witness ==
    \E r \in Runs :
        /\ disc[r].unsaved
        /\ disc[r].phase = "closed"
        /\ disc[r].completes = << <<"55", "56">> >>

\* the 10 s timer of run r fires in this step
TimeoutStep(r) ==
    /\ disc[r].timer /\ ~disc'[r].timer
    /\ disc'[r].phase = "destroyed"
    /\ ~disc'[r].errored

\* C20: the 10 s ceiling aborts the run, with an empty device list, only if it
\* elapses before the connection is established: the timer is pending only while
\* the run is connecting, and once the connection is established, or the socket
\* has reported an error or a close, it never fires.
C20_TimeoutOnlyBeforeConnect ==
    /\ [](\A r \in Runs : disc[r].timer => disc[r].phase = "connecting")
    /\ [][\A r \in Runs :
            TimeoutStep(r) =>
                /\ disc[r].phase = "connecting"
                /\ disc'[r].completes = Append(disc[r].completes, << >>)]_vars

\* C20 witness: one run was aborted by its timer with an empty list before any
\* connection, another has its connection established, its timer cancelled and
\* its backup parsed
C20_Witness ==
    \E q, r \in Runs :
        /\ disc[q].phase = "destroyed" /\ ~disc[q].errored
        /\ disc[q].sent = << >> /\ disc[q].completes = << << >> >>
        /\ disc[r].phase = "ended" /\ ~disc[r].timer
        /\ disc[r].devices # << >> /\ disc[r].completes = << >>

-----------------------------------------------------------------------------
(* Properties of the backup parser *)

\* the devices of the discovery-complete events of the run
Discovered ==
    UNION { { backup.completes[i][k] : k \in DOMAIN backup.completes[i] } :
              i \in DOMAIN backup.completes }

\* the VIDs the configured omit list names
Omitted == { Trim(Split(backup.omit, ",")[i]) : i \in DOMAIN Split(backup.omit, ",") }

\* a numeric VID outside the configured range
OutsideRange(vid) ==
    /\ backup.range # << >>
    /\ IsInteger(vid)
    /\ LET n == DigitsValue(vid, Len(vid))
       IN  \/ n < rangeList(backup.range)[1].m
           \/ n > rangeList(backup.range)[2].m

\* C15: a device whose VID is in the configured omit list, or whose numeric VID
\* is below the range minimum or above the range maximum, is never in the device
\* list of a discovery-complete event, whichever tier extracted the devices.
C15_FilteredVidNeverDiscovered ==
    \A d \in Discovered :
        /\ backup.omit # << >> => d.VID \notin Omitted
        /\ ~OutsideRange(d.VID)

\* C15 witness: the direct tier has read a text with the devices 55 and 300 under
\* omit "56, 300" and range "50,100"; the event of the run carries 55 only
C15_Witness ==
    /\ backup.stage = "closed"
    /\ backup.direct
    /\ backup.doc.objects = <<BlindShade, LoadLamp>>
    /\ backup.omit = <<"5", "6", ",", " ", "3", "0", "0">>
    /\ backup.range = <<"5", "0", ",", "1", "0", "0">>
    /\ Len(backup.completes) = 1
    /\ { d.VID : d \in Discovered } = { <<"5", "5">> }

\* the structured pass throws or finds no object collection
StructuredPassFails(doc) ==
    \/ doc.section = "none"
    \/ doc.malformed
    \/ ~doc.wrapped
    \/ doc.objects = << >>

\* C16: whenever the structured pass throws or yields no object collection
\* (a text with neither an Objects nor a Project section included), the direct
\* regex pass is run on the backup text.
C16_DirectPassAfterStructuredFailure ==
    (backup.stage # "none" /\ StructuredPassFails(backup.doc)) => backup.direct

\* an area element as the area extraction reads it: wrapped in an <Object>, with
\* a VID attribute and a name
AreasOfBackup ==
    { e \in { backup.doc.objects[i] : i \in DOMAIN backup.doc.objects } :
        backup.doc.wrapped /\ e.tag = "Area" /\ e.vidAttr # << >> /\ e.name # << >> }

\* C17: a discovered device whose area reference matches the id of an area found
\* in the backup gets that area's name as its area; when the backup holds no area
\* element at all, every discovered device gets "Main Area".
C17_AreaResolvedByReference ==
    \A d \in Discovered :
        /\ \A a \in AreasOfBackup : d.areaId = a.vidAttr => d.Area = a.name
        /\ (\A i \in DOMAIN backup.doc.objects : backup.doc.objects[i].tag # "Area")
              => d.Area = <<"Main Area">>

\* C17 witness: the Lamp with area reference 10 was discovered next to the area
\* 10 named Kitchen, and has the area Kitchen
C17_Witness ==
    /\ backup.stage = "closed"
    /\ AreaKitchen \in AreasOfBackup
    /\ \E d \in Discovered :
          d.VID = <<"5", "5">> /\ d.areaId = <<"1", "0">> /\ d.Area = <<"Kitchen">>

\* C18: a discovered device whose area reference is non-empty but matches no
\* collected area gets the label "Area <id>" as its area; only a device with an
\* empty area reference gets "Main Area".
C18_UnresolvedAreaLabelled ==
    \A d \in Discovered :
        /\ (d.areaId # << >> /\ d.areaId \notin DOMAIN backup.areas)
              => d.Area = <<"Area ">> \o d.areaId
        /\ d.Area = <<"Main Area">> => d.areaId = << >>

\* the second pass of the structured tier throws at an element of the backup
SecondPassThrows(doc) ==
    /\ ~StructuredPassFails(doc)
    /\ \E i \in DOMAIN doc.objects : doc.objects[i] = LoadOddVid

\* C24: no parse error of a parser tier reaches the caller of discovery: whatever
\* the backup text, processBackupFile returns normally and the connection is
\* ended, and the run then completes with the devices accumulated so far.
C24_NoParseErrorReachesCaller ==
    [][/\ (backup.stage = "none" /\ backup' # backup) =>
             ~backup'.threw /\ backup'.stage = "ended"
       /\ (backup.stage = "ended" /\ backup' # backup) =>
             /\ backup'.stage = "closed"
             /\ backup'.completes = Append(backup.completes, backup.devices)]_vars

\* C24 witness: a run has completed on a backup at which the second pass throws
C24_Witness ==
    /\ backup.stage = "closed"
    /\ backup.completes = <<backup.devices>>
    /\ SecondPassThrows(backup.doc)

\* C28: the device list of a run holds the output of a single tier, never
\* devices of the structured pass together with devices of the direct regex
\* pass, so that a fallthrough after the structured pass has accumulated
\* devices does not report a device twice.
C28_SingleTier ==
    \A i, j \in DOMAIN backup.devices :
        backup.devices[i].tier = backup.devices[j].tier

\* the identifiers the records of the backup carry: the VID attributes, the
\* texts of the <VID> children and of the <Number> children
Identifiers ==
    UNION { { backup.doc.objects[i].vidAttr, Text(backup.doc.objects[i].vidElem),
              backup.doc.objects[i].number } : i \in DOMAIN backup.doc.objects }
        \ { << >> }

\* C32: every device in the list of a discovery-complete event has a non-empty
\* VID, a non-empty name, an object type that is one of Load, Thermostat, Blind,
\* RelayBlind, QubeBlind, and a non-empty area name; its VID is an identifier a
\* record of the backup carries, so that a record with no identifier is never
\* reported.
C32_ReportedDevicesComplete ==
    \A d \in Discovered :
        /\ d.VID # << >>
        /\ d.VID \in Identifiers
        /\ d.Name # << >>
        /\ \E t \in DOMAIN validTypes : validTypes[t] = d.ObjectType
        /\ d.Area # << >>

\* C32 witness: the structured tier has read a relay blind with a number and no
\* VID and a load with a VID, no name and an area the backup does not hold; the
\* event carries the load alone, with the default name and the default area
C32_Witness ==
    /\ backup.stage = "closed"
    /\ ~backup.direct
    /\ backup.doc.objects = <<RelayBlindDoor, LoadNoName>>
    /\ Cardinality(Discovered) = 1
    /\ \A d \in Discovered :
          /\ d.VID = <<"5", "7">>
          /\ d.Name = <<"Unknown ", "Load">>
          /\ d.Area = <<"Main Area">>

-----------------------------------------------------------------------------
(* Properties of the platform *)

\* a configuration with an error: no address or a malformed one, one of
\* username and password without the other, a malformed omit list, a malformed
\* range
ConfigurationError(cfg) ==
    \/ cfg.ipaddress # AddressController
    \/ (cfg.username = "") # (cfg.password = "")
    \/ cfg.omit \notin Omits
    \/ cfg.range \notin Ranges

-----------------------------------------------------------------------------
(* Properties of the two channels *)

\* the state of the discovery runs
discVars == <<disc, backup>>

-----------------------------------------------------------------------------
(* Properties of the platform's accessories *)

\* the accessories handed to api.registerPlatformAccessories so far, as pairs
\* of the call and the place in its list
Registrations ==
    UNION { { <<i, k>> : k \in DOMAIN registered[i] } : i \in DOMAIN registered }

\* C33: however many discoveryComplete events arrive and whatever their
\* device lists hold, no two accessories registered with Homebridge have the
\* UUID of one VID, and the handler deviceMap holds under a VID is the one
\* made for that VID.
C33_OneAccessoryPerVid ==
    /\ \A p, q \in Registrations :
          registered[p[1]][p[2]] = registered[q[1]][q[2]] => p = q
    /\ \A vid \in DOMAIN deviceMap : deviceMap[vid].config.vid = vid

\* the kind of accessory an event is for
Matches(name, kind) ==
    \/ name = "loadStatusChange" /\ kind \in {"VantageLoad", "VantageSwitch"}
    \/ name = "blindStatusChange" /\ kind = "VantageBlind"
    \/ name \in {"thermostatIndoorTemperatureChange", "thermostatIndoorModeChange"}
          /\ kind = "VantageThermostat"

\* a step in which neither an event of discovery nor HomeKit has acted
StatusStep == completions' = completions /\ calls' = calls

\* C34: a status line changes at most the state of the accessory stored under
\* the VID of its event, and only if the accessory is of the event's kind: a
\* load or a switch for loadStatusChange, a blind for blindStatusChange, a
\* thermostat for the two thermostat events. Every other accessory, and every
\* accessory when the VID has none, keeps its state.
C34_EventChangesMatchingAccessoryOnly ==
    [][StatusStep =>
          /\ DOMAIN deviceMap' = DOMAIN deviceMap
          /\ \E line \in StatusLines :
                LET events == EventsOf(handleCommandData(line))
                IN  \A vid \in DOMAIN deviceMap :
                       \/ deviceMap'[vid] = deviceMap[vid]
                       \/ /\ deviceMap'[vid].kind = deviceMap[vid].kind
                          /\ deviceMap'[vid].config = deviceMap[vid].config
                          /\ \E i \in DOMAIN events :
                                /\ events[i].a = vid
                                /\ Matches(events[i].name, deviceMap[vid].kind)]_vars

\* the blind under VID 7 has been told its position, 40, and the light under
\* VID 55, which the line does not name, is as it was made
C34_Witness ==
    /\ DOMAIN deviceMap = {<<"7">>, <<"5", "5">>}
    /\ deviceMap[<<"7">>].kind = "VantageBlind"
    /\ deviceMap[<<"7">>].state.currentPosition = Num(40, 0)
    /\ deviceMap[<<"5", "5">>] = NewHandler(Load55)

\* the VIDs of the load accessories
Loads == { vid \in DOMAIN deviceMap : deviceMap[vid].kind = "VantageLoad" }

\* a level 0..100
IsLevel(x) == x.k = "num" /\ x.e = 0 /\ x.m \in 0..100

\* HomeKit has written a characteristic of the accessory under vid, which
\* made the accessory call setLoadLevel
LoadSetStep(vid) ==
    /\ calls' = calls + 1
    /\ lastCall'.op = "setLoadLevel"
    /\ lastCall'.args[1] = vid
    /\ vid \in Loads

\* C35: a load accessory whose brightness is a level 0..100 and whose power is
\* true has a brightness above 0, whatever On, Brightness and RotationSpeed
\* writes and status lines came before; and the write that leaves the load on
\* does not send level 0.
C35_PowerImpliesBrightness ==
    /\ [](\A vid \in Loads :
             IsLevel(deviceMap[vid].state.brightness) /\ deviceMap[vid].state.power
                => deviceMap[vid].state.brightness.m > 0)
    /\ [][\A vid \in DOMAIN deviceMap :
             /\ LoadSetStep(vid)
             /\ deviceMap'[vid].state.power
             /\ IsLevel(deviceMap'[vid].state.brightness)
             => writes'[Len(writes')].line =
                    <<"INVOKE", vid, "Load.Ramp", "6", "1",
                      ToString(deviceMap'[vid].state.brightness.m)>>
                /\ deviceMap'[vid].state.brightness.m > 0]_vars

\* the light under VID 7 is on at 100 after HomeKit has written two of its
\* characteristics, the first write having sent level 0
C35_Witness ==
    /\ <<"7">> \in Loads
    /\ deviceMap[<<"7">>].state = [brightness |-> Num(100, 0), power |-> TRUE]
    /\ calls = 2
    /\ Len(writes) >= 2
    /\ writes[Len(writes) - 1].line = <<"INVOKE", <<"7">>, "Load.Ramp", "6", "1", "0">>
    /\ writes[Len(writes)].line = <<"INVOKE", <<"7">>, "Load.Ramp", "6", "1", "100">>

\* the VIDs of the blind accessories
Blinds == { vid \in DOMAIN deviceMap : deviceMap[vid].kind = "VantageBlind" }

\* C36: a blind accessory reports positionState STOPPED (2) exactly when its
\* target position equals its current position, whatever TargetPosition
\* writes and position lines came before.
C36_StoppedIffAtTarget ==
    \A vid \in Blinds :
        deviceMap[vid].state.positionState = 2
            <=> deviceMap[vid].state.targetPosition = deviceMap[vid].state.currentPosition

\* the VIDs of the thermostat accessories
Thermostats == { vid \in DOMAIN deviceMap : deviceMap[vid].kind = "VantageThermostat" }

\* the controller has reported a setpoint of the thermostat under vid
SetpointReport(vid) ==
    /\ vid \in Thermostats
    /\ vid \in DOMAIN setpoints'
    /\ vid \notin DOMAIN setpoints \/ setpoints'[vid] # setpoints[vid]

\* C37: a setpoint report R:THERMTEMP <vid> HEAT|COOL <value> for a thermostat
\* accessory whose target mode is Auto (3) leaves the accessory in Auto, its
\* current mode as it was.
C37_SetpointReportKeepsAuto ==
    [][\A vid \in DOMAIN deviceMap :
          SetpointReport(vid) /\ deviceMap[vid].state.targetHeatingCoolingState = 3
             => /\ deviceMap'[vid].state.targetHeatingCoolingState = 3
                /\ deviceMap'[vid].state.currentHeatingCoolingState
                      = deviceMap[vid].state.currentHeatingCoolingState]_vars

\* HomeKit has written the TargetTemperature of the thermostat under vid
TargetTemperatureStep(vid) ==
    /\ calls' = calls + 1
    /\ lastCall'.op = "setThermostatTemperature"
    /\ lastCall'.args[1] = vid

\* C38: the heating and cooling thresholds a thermostat accessory hands to
\* setThermostatTemperature are the heat and cool setpoints the controller
\* reported last for its VID, and in Auto a target between the two reported
\* setpoints writes nothing.
C38_ThresholdsAreReportedSetpoints ==
    [][\A vid \in DOMAIN setpoints :
          TargetTemperatureStep(vid)
             => /\ setpoints[vid].heat # NoNum
                      => Num(lastCall'.args[4], 0) = setpoints[vid].heat
                /\ setpoints[vid].cool # NoNum
                      => Num(lastCall'.args[5], 0) = setpoints[vid].cool
                /\ /\ setpoints[vid].heat # NoNum /\ setpoints[vid].cool # NoNum
                   /\ lastCall'.args[3] = 3
                   /\ ~Greater(setpoints[vid].heat, Num(lastCall'.args[2], 0))
                   /\ ~Greater(Num(lastCall'.args[2], 0), setpoints[vid].cool)
                   => writes' = writes]_vars
====
